---- MODULE Spec2Model ----
(***************************************************************************)
(* A model of the dibox dependency-injection container.                    *)
(*                                                                         *)
(*   DIMap        src/src/dibox/dimap.py        lookup by (type, name)     *)
(*   FactoryBox   src/dibox/factory_box.py      registry used by DIBox     *)
(*                src/src/dibox/factory_box.py  registry with find_binding *)
(*   _InstanceBox src/src/dibox/instance_box.py instance store, lifecycle  *)
(*   DIBox        src/src/dibox/dibox.py        bind / provide / close     *)
(*                                                                         *)
(* Python objects are strings.  None is the one object "None", whether it  *)
(* stands for an absent type, an absent name or a null value, as in the    *)
(* code.  A union type is a string such as "A|B"; UnionArgs gives its      *)
(* members in declared order (typing.get_args).                            *)
(***************************************************************************)
EXTENDS Integers, Sequences, FiniteSets, TLC

VARIABLES
    items,          \* _InstanceBox._items, a DIMap: <<[key, val], ...>> in insertion order
    answer,         \* the last synchronous call and what it returned
    factories_map,  \* FactoryBox.map, a DIMap from key to factory (or binding record)
    func_bindings,  \* FactoryBox.func_bindings (func_matchers): <<<<predicate, factory>>, ...>>
    objects,        \* every object a factory call returned: <<[cls, fac, key], ...>>
    tasks,          \* the calls in flight: slot -> task record
    running,        \* the slot of the task that holds the event loop, 0 when it is idle
    finished,       \* the completed calls, a set of records
    events,         \* in order: start and close methods invoked, store written or cleared
    nbinds          \* the number of bind calls made

None == "None"

(***************************************************************************)
(* The universe of types and names.                                        *)
(***************************************************************************)
Classes == {"A", "B"}
Unions == {"A|B", "B|A"}
UnionArgs == [u \in Unions |-> IF u = "A|B" THEN <<"A", "B">> ELSE <<"B", "A">>]
Names == {"n", "m"}           \* names a request may carry
BoundNames == {"n"}           \* names that entries are stored under

KeyTypes == Classes \cup {None}
KeyNames == BoundNames \cup {None}
Keys == KeyTypes \X KeyNames
NameQueries == Names \cup {None}

(***************************************************************************)
(* DIMap: a dict keyed by (type, name).  dict.get gives None for a key     *)
(* that is not there, and for a key whose value is None.                   *)
(***************************************************************************)
HasKey(m, k) == \E i \in 1..Len(m) : m[i].key = k

Get(m, k) ==
    IF HasKey(m, k) THEN m[CHOOSE i \in 1..Len(m) : m[i].key = k].val ELSE None

\* dict.setdefault in the place of dict.__setitem__: an old key keeps its value.
SetDefault(m, k, v) ==
    IF HasKey(m, k) THEN m ELSE Append(m, [key |-> k, val |-> v])

\* dict.__setitem__: a new key goes last, an old key keeps its place.
SetItem(m, k, v) ==
    IF HasKey(m, k)
    THEN [i \in 1..Len(m) |-> IF m[i].key = k THEN [key |-> k, val |-> v] ELSE m[i]]
    ELSE Append(m, [key |-> k, val |-> v])

Values(m) == [i \in 1..Len(m) |-> m[i].val]

NoMatch == <<>>

\* _find_match with the two fallbacks tried in the other order.
find_match_name_first(m, cls, name) ==
    IF Get(m, <<cls, name>>) # None
    THEN <<Get(m, <<cls, name>>), <<cls, name>>>>
    ELSE IF cls # None /\ Get(m, <<None, name>>) # None
    THEN <<Get(m, <<None, name>>), <<None, name>>>>
    ELSE IF name # None /\ Get(m, <<cls, None>>) # None
    THEN <<Get(m, <<cls, None>>), <<cls, None>>>>
    ELSE NoMatch

_find_match(m, cls, name) ==
    IF Get(m, <<cls, name>>) # None
    THEN <<Get(m, <<cls, name>>), <<cls, name>>>>
    ELSE IF name # None /\ Get(m, <<cls, None>>) # None
    THEN <<Get(m, <<cls, None>>), <<cls, None>>>>
    ELSE IF cls # None /\ Get(m, <<None, name>>) # None
    THEN <<Get(m, <<None, name>>), <<None, name>>>>
    ELSE NoMatch

\* _expand_type that yields a union's members last to first.
expand_type_reversed(requested_type) ==
    IF requested_type \in Unions
    THEN [i \in 1..Len(UnionArgs[requested_type]) |->
            UnionArgs[requested_type][Len(UnionArgs[requested_type]) + 1 - i]]
    ELSE <<requested_type>>

_expand_type(requested_type) ==
    IF requested_type \in Unions THEN UnionArgs[requested_type] ELSE <<requested_type>>

RECURSIVE FirstMatch(_, _, _, _)
FirstMatch(m, subtypes, i, name) ==
    IF i > Len(subtypes) THEN NoMatch
    ELSE IF _find_match(m, subtypes[i], name) # NoMatch
    THEN _find_match(m, subtypes[i], name)
    ELSE FirstMatch(m, subtypes, i + 1, name)

find_match(m, type_request, name_request) ==
    FirstMatch(m, _expand_type(type_request), 1, name_request)

(***************************************************************************)
(* The state of a container.                                               *)
(***************************************************************************)
MaxTasks == 2
Slots == 1..MaxTasks
Idle == [op |-> "idle"]

container == <<factories_map, func_bindings, objects, tasks, running, finished,
               events, nbinds>>

(***************************************************************************)
(* The callables and objects that the calls are made with.                 *)
(*                                                                         *)
(*   class A:  def __init__(self)            start(), close()              *)
(*   class B:  def __init__(self, n: A)      __enter__(), __exit__()       *)
(*   mk   = lambda: Svc()                    Svc has start(), close()      *)
(*   amk  = async def amk(): await sleep(0); return Svc()                  *)
(*   boom = def boom(n: A): raise                                          *)
(*   mk_none = lambda: None                                                *)
(*   mk_bad  = lambda: BadStart()            BadStart.start() raises       *)
(*   always_true = lambda t: True            a predicate selector          *)
(*   is_a = lambda t: issubclass(t, A)       a predicate selector          *)
(*   x1   = an object built beforehand, with close()                       *)
(*   x2   = an object built beforehand, whose close() raises               *)
(***************************************************************************)
Functions ==
    {"mk", "amk", "boom", "mkctx", "mk_t", "mk_ta", "mk_type", "mk_nu", "mk_none", "mk_bad"}
Predicates == {"always_true", "is_a"}
Prebuilt == {"x1", "x2"}
ObjName == <<"o1", "o2", "o3", "o4", "o5", "o6", "o7", "o8">>

\* lambda: to, the factory DIBox.bind wraps around an instance bound to a predicate.
Lambda(to) == "lambda:" \o to
LambdaOf == [f \in {Lambda(x) : x \in Prebuilt} |-> CHOOSE x \in Prebuilt : Lambda(x) = f]

\* functools.partial(f, **kwargs); kwargs is the set of names given (at most one).
Partial(f, kwargs) ==
    IF kwargs = {} THEN f ELSE f \o "+" \o (CHOOSE k \in kwargs : TRUE)
\* The names a keyword argument of bind may have: those of requests, and that
\* of the first parameter of the factories.
KeywordNames == Names \cup {"t"}
Partials ==
    [p \in {Partial(f, {k}) : f \in Functions \cup Classes, k \in KeywordNames} |->
        CHOOSE fk \in (Functions \cup Classes) \X KeywordNames : Partial(fk[1], {fk[2]}) = p]
Func(f) == IF f \in DOMAIN Partials THEN Partials[f][1] ELSE f
Keywords(f) == IF f \in DOMAIN Partials THEN {Partials[f][2]} ELSE {}

IsCallable(x) ==
    x \in Functions \cup Classes \cup Predicates \cup DOMAIN LambdaOf \cup DOMAIN Partials
\* inspect.isclass; "type" is the builtin class type.
IsClass(x) == x \in Classes \cup {"type"}
\* inspect.isfunction(x) and len(inspect.signature(x).parameters) == 1
_is_func_selector(x) == x \in Predicates

Empty == "<empty>"              \* inspect.Parameter.empty
Param(name, annotation, default) ==
    [name |-> name, annotation |-> annotation, default |-> default,
     kind |-> "POSITIONAL_OR_KEYWORD"]
\* *name: annotation
VarPositional(name, annotation) ==
    [name |-> name, annotation |-> annotation, default |-> Empty, kind |-> "VAR_POSITIONAL"]

\* The signatures: class B and boom take (n: A); mk_t is def mk_t(t, n: A),
\* mk_ta is def mk_ta(t: type[A], d: B = ..., *rest: A), mk_type is
\* def mk_type(t: type), mk_nu is def mk_nu(n: A, u).
Declared(f) ==
    CASE f = "B" -> <<Param("n", "A", Empty)>>
      [] f = "boom" -> <<Param("n", "A", Empty)>>
      [] f = "mk_t" -> <<Param("t", Empty, Empty), Param("n", "A", Empty)>>
      [] f = "mk_ta" -> <<Param("t", "type[A]", Empty), Param("d", "B", "default"),
                          VarPositional("rest", "A")>>
      [] f = "mk_type" -> <<Param("t", "type", Empty)>>
      [] f = "mk_nu" -> <<Param("n", "A", Empty), Param("u", Empty, Empty)>>
      [] OTHER -> <<>>

\* inspect.signature(f).parameters, without self; a parameter that partial has
\* fixed shows the fixed value as its default.
Parameters(f) ==
    [i \in 1..Len(Declared(Func(f))) |->
        IF Declared(Func(f))[i].name \in Keywords(f)
        THEN [Declared(Func(f))[i] EXCEPT !.default = "fixed"]
        ELSE Declared(Func(f))[i]]

IsCoroutineFunction(f) == Func(f) = "amk"
Raises(f) == Func(f) = "boom"
\* The factory returns None.
ReturnsNone(f) == Func(f) = "mk_none"
\* The class of what a factory returns: a class makes its instance, the
\* function mkctx a service with asynchronous hooks, mk_bad a service whose
\* start raises, mk_none None, the others a service with synchronous hooks.
ClassMade(f) ==
    IF Func(f) \in Classes THEN Func(f)
    ELSE IF Func(f) = "mkctx" THEN "ASvc"
    ELSE IF Func(f) = "mk_bad" THEN "BadStart"
    ELSE IF ReturnsNone(f) THEN "NoneType"
    ELSE "Svc"

ClassOf(obj) ==
    IF obj = None THEN "NoneType"
    ELSE IF obj = "x2" THEN "XBad"
    ELSE IF obj \in Prebuilt THEN "X"
    ELSE objects[CHOOSE i \in 1..Len(objects) : ObjName[i] = obj].cls

TypeOf == {"type[A]", "type[Any]"}       \* annotations whose origin is type

MethodRaises(cls, method) ==
    \/ cls = "XBad" /\ method = "close"
    \/ cls = "BadStart" /\ method = "start"
\* The methods that return an awaitable which suspends: the asynchronous hooks
\* of the service mkctx makes.
MethodSuspends(cls, method) ==
    cls = "ASvc" /\ method \in {"__aenter__", "__aexit__", "aclose"}

Methods(cls) ==
    CASE cls = "A" -> {"start", "close"}
      [] cls = "B" -> {"__enter__", "__exit__"}
      [] cls = "Svc" -> {"start", "__enter__", "close", "__exit__"}
      [] cls = "ASvc" -> {"__aenter__", "start", "__enter__",
                          "__aexit__", "aclose", "close", "__exit__"}
      [] cls = "X" -> {"aclose", "close"}
      [] cls = "XBad" -> {"close"}
      [] cls = "BadStart" -> {"start", "close"}
      [] OTHER -> {}

\* What predicate(t) does: TRUE, FALSE, or "raise" (issubclass of a non-class).
Accepts(predicate, t) ==
    CASE predicate = "always_true" -> "TRUE"
      [] predicate = "is_a" -> IF ~IsClass(t) THEN "raise"
                               ELSE IF t = "A" THEN "TRUE" ELSE "FALSE"

(***************************************************************************)
(* FactoryBox as DIBox uses it (src/dibox/factory_box.py).                 *)
(***************************************************************************)
Error(kind) == <<"error", kind>>
IsError(r) == Len(r) = 2 /\ r[1] = "error"
Returned(value) == <<"ok", value>>

RECURSIVE _get_factory_from_func_bindings(_, _, _)
_get_factory_from_func_bindings(bindings, i, cls) ==
    IF i > Len(bindings) THEN NoMatch
    ELSE IF Accepts(bindings[i][1], cls) = "raise" THEN Error("TypeError")
    ELSE IF Accepts(bindings[i][1], cls) = "TRUE" THEN <<bindings[i][2], <<cls, None>>>>
    ELSE _get_factory_from_func_bindings(bindings, i + 1, cls)

get_factory(fmap, bindings, cls, argname) ==
    IF find_match(fmap, cls, argname) # NoMatch THEN find_match(fmap, cls, argname)
    ELSE IF _get_factory_from_func_bindings(bindings, 1, cls) # NoMatch
    THEN _get_factory_from_func_bindings(bindings, 1, cls)
    ELSE IF ~IsClass(cls) THEN Error("ValueError")
    ELSE <<cls, <<cls, None>>>>

(***************************************************************************)
(* DIBox.bind.  kwargs is the set of parameter names given as keywords.    *)
(***************************************************************************)
MaxBinds == 3

\* FactoryBox.bind: a predicate selector is appended before argname is looked at.
FactoryBoxBind(type_selector, factory, argname) ==
    IF _is_func_selector(type_selector)
    THEN /\ func_bindings' = Append(func_bindings, <<type_selector, factory>>)
         /\ answer' = IF argname # None THEN Error("ValueError") ELSE <<"bind">>
         /\ UNCHANGED factories_map
    ELSE /\ factories_map' = SetItem(factories_map, <<type_selector, argname>>, factory)
         /\ answer' = <<"bind">>
         /\ UNCHANGED func_bindings

Bind(type_selector, to, name, kwargs) ==
    /\ running = 0
    /\ nbinds < MaxBinds
    /\ nbinds' = nbinds + 1
    /\ IF IsCallable(to)
       THEN FactoryBoxBind(type_selector, Partial(to, kwargs), name) /\ UNCHANGED items
       ELSE IF IsCallable(type_selector) /\ ~IsClass(type_selector)
       THEN FactoryBoxBind(type_selector, Lambda(to), name) /\ UNCHANGED items
       ELSE IF kwargs # {}
       THEN /\ answer' = Error("ValueError")
            /\ UNCHANGED <<items, factories_map, func_bindings>>
       ELSE \* _InstanceBox.register_instance
            /\ items' = SetItem(items, <<type_selector, name>>, to)
            /\ answer' = <<"bind">>
            /\ UNCHANGED <<factories_map, func_bindings>>
    /\ UNCHANGED <<objects, tasks, running, finished, events>>

(***************************************************************************)
(* Calls.  Execution is cooperative: the task that holds the event loop    *)
(* (running) steps until it finishes or awaits something that suspends,    *)
(* and only then may another task, or a synchronous call, run.             *)
(***************************************************************************)
MaxCalls == 3           \* calls of provide and close that are made

Frame(rt, name) ==
    [rt |-> rt, name |-> name, phase |-> "enter", fac |-> None,
     key |-> <<None, None>>, over |-> {}, deps |-> <<>>, got |-> <<>>, obj |-> None]

Live(s) == tasks[s].op # "idle"
Top(s) == tasks[s].stack[Len(tasks[s].stack)]
WithTop(s, frame) ==
    [tasks EXCEPT ![s].stack = [tasks[s].stack EXCEPT ![Len(tasks[s].stack)] = frame]]

\* The record kept of a call that is over, the n-th to end.  after is the store
\* the call leaves:
\* kept tells whether the store it found is still there, entry for entry; added
\* is what follows it; made are the objects factories returned during the call;
\* hit tells whether the store had a match for the request when the call began;
\* found are the values the store held then, seen the length of the event log
\* then, closed the instances closed since and hooks the calls of their close
\* methods, cleared whether the store is left empty;
\* pending are the keys whose construction was under way when it ended.
Record(s, res, after) ==
    [n |-> Cardinality(finished) + 1,
     op |-> tasks[s].op, rt |-> tasks[s].rt, name |-> tasks[s].name, res |-> res,
     kept |-> /\ Len(after) >= Len(tasks[s].before)
              /\ SubSeq(after, 1, Len(tasks[s].before)) = tasks[s].before,
     added |-> SubSeq(after, Len(tasks[s].before) + 1, Len(after)),
     made |-> {i \in 1..Len(objects) : i > tasks[s].nobjects},
     pending |-> IF tasks[s].op = "provide" /\ IsError(res)
                 THEN {tasks[s].stack[i].key : i \in
                        {j \in 1..Len(tasks[s].stack) : tasks[s].stack[j].phase # "enter"}}
                 ELSE {},
     found |-> Values(tasks[s].before),
     seen |-> tasks[s].seen,
     closed |-> LET since == SubSeq(events, tasks[s].seen + 1, Len(events))
                    closes == SelectSeq(since, LAMBDA e : e[1] = "close")
                IN [i \in 1..Len(closes) |-> closes[i][2]],
     hooks |-> LET since == SubSeq(events, tasks[s].seen + 1, Len(events))
               IN SelectSeq(since, LAMBDA e : e[1] = "close"),
     cleared |-> after = <<>>,
     hit |-> tasks[s].hit, solo |-> tasks[s].solo, nbinds |-> nbinds]

\* The call of slot s is over, with a result or with an exception.
Finish(s, res, after) ==
    /\ tasks' = [tasks EXCEPT ![s] = Idle]
    /\ finished' = finished \cup {Record(s, res, after)}
    /\ running' = 0

\* The frame on top returns value: to the frame below, or to the caller.
Return(s, value, after) ==
    IF Len(tasks[s].stack) = 1 THEN Finish(s, Returned(value), after)
    ELSE LET below == tasks[s].stack[Len(tasks[s].stack) - 1]
             stack == SubSeq(tasks[s].stack, 1, Len(tasks[s].stack) - 1)
         IN /\ tasks' = [tasks EXCEPT ![s].stack =
                    [stack EXCEPT ![Len(stack)].got =
                        Append(below.got, <<below.deps[Len(below.got) + 1][1], value>>)]]
            /\ UNCHANGED <<finished, running>>

Begin(s, op, rt, name, more) ==
    /\ running = 0
    /\ ~Live(s)
    /\ \A r \in Slots : r < s => Live(r)
    /\ Cardinality(finished) + Cardinality({r \in Slots : Live(r)}) < MaxCalls
    /\ tasks' = [r \in Slots |->
            IF r = s
            THEN [op |-> op, rt |-> rt, name |-> name, before |-> items,
                  nobjects |-> Len(objects), seen |-> Len(events),
                  solo |-> \A q \in Slots : ~Live(q)] @@ more
            ELSE IF Live(r) THEN [tasks[r] EXCEPT !.solo = FALSE] ELSE tasks[r]]
    /\ running' = s

\* inspect.signature(f) raises ValueError for the builtin class type.
HasSignature(f) == Func(f) # "type"

_find_factory_bound_arguments(parent_type, factory_func) ==
    IF Parameters(factory_func) = <<>> THEN {}
    ELSE LET first_arg == Parameters(factory_func)[1]
         IN IF first_arg.annotation = Empty \/ first_arg.annotation \in TypeOf
            THEN {<<first_arg.name, parent_type>>} ELSE {}

\* The condition of _list_dependencies without the test of the default.
is_dependency_despite_default(parameter, args_override) ==
    /\ parameter.kind \notin {"VAR_POSITIONAL", "VAR_KEYWORD"}
    /\ parameter.name \notin {a[1] : a \in args_override}
    /\ parameter.annotation # Empty

IsDependency(parameter, args_override) ==
    /\ parameter.default = Empty
    /\ parameter.kind \notin {"VAR_POSITIONAL", "VAR_KEYWORD"}
    /\ parameter.name \notin {a[1] : a \in args_override}
    /\ parameter.annotation # Empty

_list_dependencies(consumer, args_override) ==
    LET deps == SelectSeq(Parameters(consumer), LAMBDA q : IsDependency(q, args_override))
    IN [i \in 1..Len(deps) |-> <<deps[i].name, deps[i].annotation>>]

\* factory(**args) has every parameter without a default among args.
ArgumentsSuffice(factory, args) ==
    \A i \in 1..Len(Parameters(factory)) :
        (/\ Parameters(factory)[i].default = Empty
         /\ Parameters(factory)[i].kind \notin {"VAR_POSITIONAL", "VAR_KEYWORD"})
            => Parameters(factory)[i].name \in {a[1] : a \in args}

\* _lookup_method that returns the last of the methods the object has.
lookup_method_last(obj, method_names) ==
    LET has == {i \in 1..Len(method_names) : method_names[i] \in Methods(ClassOf(obj))}
    IN IF has = {} THEN "" ELSE method_names[CHOOSE i \in has : \A j \in has : i >= j]

\* _InstanceBox._lookup_method: the name of the method found, "" for none.
_lookup_method(obj, method_names) ==
    LET has == {i \in 1..Len(method_names) : method_names[i] \in Methods(ClassOf(obj))}
    IN IF has = {} THEN "" ELSE method_names[CHOOSE i \in has : \A j \in has : i <= j]

\* close_method_name.startswith("__")
StartsWithDunder(method_name) ==
    method_name \in {"__aenter__", "__enter__", "__aexit__", "__exit__"}
\* The arguments _shutdown_instance calls a close method with.
CloseArguments(close_method_name) ==
    IF StartsWithDunder(close_method_name) THEN <<None, None, None>> ELSE <<>>

start_methods == <<"__aenter__", "start", "__enter__">>
close_methods == <<"__aexit__", "aclose", "close", "__exit__">>

\* get_instance that looks under the requested pair only.
get_instance_exact(m, requested_type, name) == Get(m, <<requested_type, name>>)

\* _InstanceBox.get_instance
get_instance(m, requested_type, name) ==
    IF find_match(m, requested_type, name) # NoMatch
    THEN find_match(m, requested_type, name)[1] ELSE None

\* DIBox.resolve, as a value: the instance, or KeyError.
resolve(m, requested_type, name) ==
    IF get_instance(m, requested_type, name) = None THEN Error("KeyError")
    ELSE Returned(get_instance(m, requested_type, name))

\* DIBox.resolve is called (it is synchronous: no task is in the middle of a step).
Resolve(rt, name) ==
    /\ running = 0
    /\ answer' = <<"resolve", rt, name, resolve(items, rt, name)>>
    /\ UNCHANGED <<items, container>>

\* DIBox.provide is called.
Provide(s, rt, name) ==
    /\ Begin(s, "provide", rt, name,
             [stack |-> <<Frame(rt, name)>>, hit |-> find_match(items, rt, name) # NoMatch])
    /\ UNCHANGED <<items, answer, factories_map, func_bindings, objects, finished,
                   events, nbinds>>

\* provide: resolve finds a cached instance, or _create_instance looks the
\* factory up and lists its dependencies.
ProvideEnter(s) ==
    /\ running = s /\ tasks[s].op = "provide" /\ Top(s).phase = "enter"
    /\ LET f == Top(s)
           cached == find_match(items, f.rt, f.name)
           found == get_factory(factories_map, func_bindings, f.rt, f.name)
       IN IF cached # NoMatch THEN Return(s, cached[1], items)
          ELSE IF IsError(found) THEN Finish(s, found, items)
          ELSE IF ~HasSignature(found[1]) THEN Finish(s, Error("ValueError"), items)
          ELSE LET over == _find_factory_bound_arguments(f.rt, found[1])
               IN /\ tasks' = WithTop(s, [f EXCEPT !.phase = "deps", !.fac = found[1],
                                  !.key = found[2], !.over = over,
                                  !.deps = _list_dependencies(found[1], over)])
                  /\ UNCHANGED <<finished, running>>
    /\ UNCHANGED <<items, answer, factories_map, func_bindings, objects, events, nbinds>>

\* _provide_dependencies: await self.provide(arg_type, arg_name) for the next one.
ProvideDependency(s) ==
    /\ running = s /\ tasks[s].op = "provide" /\ Top(s).phase = "deps"
    /\ Len(Top(s).got) < Len(Top(s).deps)
    /\ LET dep == Top(s).deps[Len(Top(s).got) + 1]
       IN tasks' = [tasks EXCEPT ![s].stack = Append(@, Frame(dep[2], dep[1]))]
    /\ UNCHANGED <<items, answer, factories_map, func_bindings, objects, running,
                   finished, events, nbinds>>

\* create_instance that tests whether the key is in the store, not whether the
\* value under it is None.
create_instance_by_membership(s) ==
    /\ running = s /\ tasks[s].op = "provide" /\ Top(s).phase = "deps"
    /\ Len(Top(s).got) = Len(Top(s).deps)
    /\ LET f == Top(s)
           args == {f.got[i] : i \in 1..Len(f.got)} \cup f.over
           existing_item == Get(items, f.key)
           made == IF ReturnsNone(f.fac) THEN None ELSE ObjName[Len(objects) + 1]
       IN IF HasKey(items, f.key)
          THEN Return(s, existing_item, items) /\ UNCHANGED objects
          ELSE IF ~ArgumentsSuffice(f.fac, args)
          THEN Finish(s, Error("TypeError"), items) /\ UNCHANGED objects
          ELSE IF Raises(f.fac)
          THEN Finish(s, Error("Exception"), items) /\ UNCHANGED objects
          ELSE IF f.fac \in DOMAIN LambdaOf
          THEN /\ tasks' = WithTop(s, [f EXCEPT !.phase = "start", !.obj = LambdaOf[f.fac]])
               /\ UNCHANGED <<objects, finished, running>>
          ELSE /\ objects' = Append(objects, [cls |-> ClassMade(f.fac), fac |-> f.fac,
                                              key |-> f.key, args |-> args])
               /\ IF IsCoroutineFunction(f.fac)
                  THEN /\ tasks' = WithTop(s, [f EXCEPT !.phase = "await factory",
                                                        !.obj = made])
                       /\ running' = 0
                  ELSE /\ tasks' = WithTop(s, [f EXCEPT !.phase = "start", !.obj = made])
                       /\ UNCHANGED running
               /\ UNCHANGED finished
    /\ UNCHANGED <<items, answer, factories_map, func_bindings, events, nbinds>>

\* _InstanceBox.create_instance up to the call of the factory.
CreateInstance(s) ==
    /\ running = s /\ tasks[s].op = "provide" /\ Top(s).phase = "deps"
    /\ Len(Top(s).got) = Len(Top(s).deps)
    /\ LET f == Top(s)
           args == {f.got[i] : i \in 1..Len(f.got)} \cup f.over
           existing_item == Get(items, f.key)
           made == IF ReturnsNone(f.fac) THEN None ELSE ObjName[Len(objects) + 1]
       IN IF existing_item # None
          THEN Return(s, existing_item, items) /\ UNCHANGED objects
          ELSE IF ~ArgumentsSuffice(f.fac, args)
          THEN Finish(s, Error("TypeError"), items) /\ UNCHANGED objects
          ELSE IF Raises(f.fac)
          THEN Finish(s, Error("Exception"), items) /\ UNCHANGED objects
          ELSE IF f.fac \in DOMAIN LambdaOf
          THEN /\ tasks' = WithTop(s, [f EXCEPT !.phase = "start", !.obj = LambdaOf[f.fac]])
               /\ UNCHANGED <<objects, finished, running>>
          ELSE /\ objects' = Append(objects, [cls |-> ClassMade(f.fac), fac |-> f.fac,
                                              key |-> f.key, args |-> args])
               /\ IF IsCoroutineFunction(f.fac)
                  THEN /\ tasks' = WithTop(s, [f EXCEPT !.phase = "await factory",
                                                        !.obj = made])
                       /\ running' = 0
                  ELSE /\ tasks' = WithTop(s, [f EXCEPT !.phase = "start", !.obj = made])
                       /\ UNCHANGED running
               /\ UNCHANGED finished
    /\ UNCHANGED <<items, answer, factories_map, func_bindings, events, nbinds>>

\* An event loop that resumes the tasks that await a factory, and no other.
resume_factory_only(s) ==
    /\ running = 0 /\ Live(s)
    /\ Top(s).phase = "await factory"
    /\ tasks' = WithTop(s, [Top(s) EXCEPT !.phase = "start"])
    /\ running' = s
    /\ UNCHANGED <<items, answer, factories_map, func_bindings, objects, finished,
                   events, nbinds>>

\* The event loop resumes a task that was suspended in an await.
Resume(s) ==
    /\ running = 0 /\ Live(s)
    /\ Top(s).phase \in {"await factory", "await start", "await close"}
    /\ tasks' = WithTop(s, [Top(s) EXCEPT !.phase =
            CASE @ = "await factory" -> "start"
              [] @ = "await start" -> "register"
              [] @ = "await close" -> "close"])
    /\ running' = s
    /\ UNCHANGED <<items, answer, factories_map, func_bindings, objects, finished,
                   events, nbinds>>

\* _start_instance that goes on when the start method raises.
start_instance_swallowing(s) ==
    /\ running = s /\ tasks[s].op = "provide" /\ Top(s).phase = "start"
    /\ LET startup_method == _lookup_method(Top(s).obj, start_methods)
       IN /\ events' = IF startup_method = "" THEN events
                       ELSE Append(events, <<"start", Top(s).obj, startup_method>>)
          /\ IF startup_method # "" /\ MethodSuspends(ClassOf(Top(s).obj), startup_method)
             THEN /\ tasks' = WithTop(s, [Top(s) EXCEPT !.phase = "await start"])
                  /\ running' = 0
                  /\ UNCHANGED finished
             ELSE /\ tasks' = WithTop(s, [Top(s) EXCEPT !.phase = "register"])
                  /\ UNCHANGED <<finished, running>>
    /\ UNCHANGED <<items, answer, factories_map, func_bindings, objects, nbinds>>

\* _start_instance after the factory: the first start method there is, is called.
StartInstance(s) ==
    /\ running = s /\ tasks[s].op = "provide" /\ Top(s).phase = "start"
    /\ LET startup_method == _lookup_method(Top(s).obj, start_methods)
       IN /\ events' = IF startup_method = "" THEN events
                       ELSE Append(events, <<"start", Top(s).obj, startup_method>>)
          /\ IF startup_method # "" /\ MethodRaises(ClassOf(Top(s).obj), startup_method)
             THEN Finish(s, Error("Exception"), items)
             ELSE IF startup_method # "" /\ MethodSuspends(ClassOf(Top(s).obj), startup_method)
             THEN /\ tasks' = WithTop(s, [Top(s) EXCEPT !.phase = "await start"])
                  /\ running' = 0
                  /\ UNCHANGED finished
             ELSE /\ tasks' = WithTop(s, [Top(s) EXCEPT !.phase = "register"])
                  /\ UNCHANGED <<finished, running>>
    /\ UNCHANGED <<items, answer, factories_map, func_bindings, objects, nbinds>>

\* create_instance that returns the new instance without storing it.
RegisterInstance_unstored(s) ==
    /\ running = s /\ tasks[s].op = "provide" /\ Top(s).phase = "register"
    /\ Return(s, Top(s).obj, items)
    /\ UNCHANGED <<items, answer, factories_map, func_bindings, objects, events, nbinds>>

\* create_instance after _start_instance: self._items[(requested_type, name)] = new_instance
RegisterInstance(s) ==
    /\ running = s /\ tasks[s].op = "provide" /\ Top(s).phase = "register"
    /\ items' = SetItem(items, Top(s).key, Top(s).obj)
    /\ events' = Append(events, <<"set", Top(s).obj, Top(s).key>>)
    /\ Return(s, Top(s).obj, items')
    /\ UNCHANGED <<answer, factories_map, func_bindings, objects, nbinds>>

Closing(s) == tasks[s].op \in {"close", "__aexit__"}

\* self._items.clear() that removes nothing.
clear_nothing(m) == m

\* self._items.clear()
clear(m) == <<>>

\* DIBox.__aenter__ (AbstractAsyncContextManager): returns the container.
AEnter ==
    /\ running = 0
    /\ answer' = <<"__aenter__", "self">>
    /\ UNCHANGED <<items, container>>

\* DIBox.__aexit__(exc_type, ...) is called, the body of the scope having ended
\* normally (exc_type is None) or with an exception: await self.close().
AExit(s, exc_type) ==
    /\ Begin(s, "__aexit__", exc_type, None,
             [stack |-> <<[phase |-> "close", pos |-> Len(items), used |-> Len(items),
                           seen |-> Len(events)]>>, hit |-> FALSE])
    /\ UNCHANGED <<items, answer, factories_map, func_bindings, objects, finished,
                   events, nbinds>>

\* DIBox.close is called: _InstanceBox.close takes reversed(self._items.values()).
Close(s) ==
    /\ Begin(s, "close", None, None,
             [stack |-> <<[phase |-> "close", pos |-> Len(items), used |-> Len(items),
                           seen |-> Len(events)]>>, hit |-> FALSE])
    /\ UNCHANGED <<items, answer, factories_map, func_bindings, objects, finished,
                   events, nbinds>>

\* One turn of the loop of _InstanceBox.close, and the clear() after it.
CloseNext(s) ==
    /\ running = s /\ Closing(s) /\ Top(s).phase \in {"close", "raised"}
    /\ LET f == Top(s)
           instance == items[f.pos].val
           close_method == _lookup_method(instance, close_methods)
       IN IF f.phase = "raised"
          THEN \* the exception of the close method leaves the loop and close
               Finish(s, Error("Exception"), items) /\ UNCHANGED <<items, events>>
          ELSE IF Len(items) # f.used
          THEN \* dictionary changed size during iteration
               Finish(s, Error("RuntimeError"), items) /\ UNCHANGED <<items, events>>
          ELSE IF f.pos = 0
          THEN /\ items' = clear(items)
               /\ events' = Append(events, <<"clear">>)
               /\ Finish(s, Returned(None), items')
          ELSE IF close_method = ""
          THEN /\ tasks' = WithTop(s, [f EXCEPT !.pos = f.pos - 1])
               /\ UNCHANGED <<items, events, finished, running>>
          ELSE /\ events' = Append(events, <<"close", instance, close_method,
                                              CloseArguments(close_method)>>)
               /\ UNCHANGED items
               /\ IF MethodRaises(ClassOf(instance), close_method)
                  THEN /\ tasks' = WithTop(s, [f EXCEPT !.phase = "raised"])
                       /\ UNCHANGED <<finished, running>>
                  ELSE IF MethodSuspends(ClassOf(instance), close_method)
                  THEN /\ tasks' = WithTop(s, [f EXCEPT !.pos = f.pos - 1,
                                                        !.phase = "await close"])
                       /\ running' = 0
                       /\ UNCHANGED finished
                  ELSE /\ tasks' = WithTop(s, [f EXCEPT !.pos = f.pos - 1])
                       /\ UNCHANGED <<finished, running>>
    /\ UNCHANGED <<answer, factories_map, func_bindings, objects, nbinds>>

(***************************************************************************)
(* DIMap on its own: entries are put, lookups are made.                    *)
(***************************************************************************)
MaxEntries == 3
\* The value put under a key names the key, as in tests/dimap_test.py ("bar/arg"),
\* or is None.
ValueFor(k) == k[1] \o "/" \o k[2]
MapValues(k) == {ValueFor(k), None}
TypeQueries == Classes \cup Unions \cup {None}

Init ==
    /\ items = <<>>
    /\ answer = NoMatch
    /\ factories_map = <<>>
    /\ func_bindings = <<>>
    /\ objects = <<>>
    /\ tasks = [s \in Slots |-> Idle]
    /\ running = 0
    /\ finished = {}
    /\ events = <<>>
    /\ nbinds = 0

DIMapSetItem(k, v) ==
    /\ HasKey(items, k) \/ Len(items) < MaxEntries
    /\ items' = SetItem(items, k, v)
    /\ answer' = <<"setitem">>
    /\ UNCHANGED container

DIMapFindMatch(t, n) ==
    /\ answer' = <<"find_match", t, n, find_match(items, t, n)>>
    /\ UNCHANGED <<items, container>>

MapNext ==
    \/ \E k \in Keys : \E v \in MapValues(k) : DIMapSetItem(k, v)
    \/ \E t \in TypeQueries, n \in NameQueries : DIMapFindMatch(t, n)

vars == <<items, answer, factories_map, func_bindings, objects, tasks, running,
          finished, events, nbinds>>

SpecMap == Init /\ [][MapNext]_vars

(***************************************************************************)
(* A container wired with synchronous factories and asked for instances,   *)
(* one call after the other.                                               *)
(***************************************************************************)
ResolveBinds ==
    {<<"A", "mk", None>>, <<"A", "mk", "n">>, <<None, "mk", "n">>, <<"B", "mk", None>>,
     <<"B", "boom", None>>, <<"always_true", "mk", None>>, <<None, "x1", "n">>}
ResolveRequests ==
    {<<"A", None>>, <<"A", "n">>, <<"A", "m">>, <<"B", None>>, <<"B", "n">>,
     <<"A|B", None>>}

\* The wiring is done before the first instance is asked for.
Wiring == finished = {} /\ \A s \in Slots : ~Live(s)

ResolveNext ==
    \/ \E b \in ResolveBinds : Wiring /\ Bind(b[1], b[2], b[3], {})
    \/ \E r \in ResolveRequests : Provide(1, r[1], r[2])
    \/ ProvideEnter(1)
    \/ ProvideDependency(1)
    \/ CreateInstance(1)
    \/ StartInstance(1)
    \/ RegisterInstance(1)

SpecResolve == Init /\ [][ResolveNext]_vars

(***************************************************************************)
(* A container used by two tasks at once, and closed: an asynchronous      *)
(* factory suspends the task that awaits it.                               *)
(***************************************************************************)
LifeBinds ==
    {<<"A", "amk", None>>, <<"A", "x1", None>>, <<"B", "x1", None>>, <<"B", "x2", None>>}
Exceptions == {None, "Exception"}       \* exc_type given to __aexit__
LifeRequests == {<<"A", None>>, <<"B", None>>}
LifeQueries == {<<"A", None>>, <<"A", "n">>, <<"B", None>>, <<"A|B", None>>}

LifeNext ==
    \/ \E b \in LifeBinds : Wiring /\ Bind(b[1], b[2], b[3], {})
    \/ \E s \in Slots, r \in LifeRequests : Provide(s, r[1], r[2])
    \/ \E s \in Slots : ProvideEnter(s)
    \/ \E s \in Slots : ProvideDependency(s)
    \/ \E s \in Slots : CreateInstance(s)
    \/ \E s \in Slots : Resume(s)
    \/ \E s \in Slots : StartInstance(s)
    \/ \E s \in Slots : RegisterInstance(s)
    \/ \E s \in Slots : Close(s)
    \/ \E s \in Slots : CloseNext(s)
    \/ \E q \in LifeQueries : Resolve(q[1], q[2])
    \/ AEnter
    \/ \E s \in Slots, e \in Exceptions : AExit(s, e)

SpecLife == Init /\ [][LifeNext]_vars

(***************************************************************************)
(* FactoryBox with find_binding (src/src/dibox/factory_box.py).  What it   *)
(* keeps under a key or with a predicate is a BindingRecord.               *)
(***************************************************************************)
Missing == "<missing>"          \* _MISSING
Values_ == {"V"}                \* a value that is neither a class nor callable

BindingRecord(async_factory, sync_factory) ==
    "BindingRecord(" \o async_factory \o ", " \o sync_factory \o ")"

\* inspect.isfunction
IsFunction(x) == x \in Functions \cup Predicates \cup DOMAIN LambdaOf

_wrap_factory_func(func, kwargs) ==
    IF kwargs # {} /\ ~IsCallable(func) THEN Error("TypeError")
    ELSE IF IsCoroutineFunction(Partial(func, kwargs))
    THEN Returned(BindingRecord(Partial(func, kwargs), None))
    ELSE Returned(BindingRecord(None, Partial(func, kwargs)))

_wrap_instance(instance, kwargs) ==
    IF kwargs # {} THEN Error("ValueError")
    ELSE Returned(BindingRecord(None, Lambda(instance)))

\* _wrap_generic_target that takes every target for an instance.
wrap_generic_target_as_instance(target, kwargs) == _wrap_instance(target, kwargs)

_wrap_generic_target(target, kwargs) ==
    IF IsCallable(target) THEN _wrap_factory_func(target, kwargs)
    ELSE _wrap_instance(target, kwargs)

\* _forbid_kwargs raises when one of the arguments was given by keyword.
_forbid_kwargs(given) == \E i \in 1..Len(given) : given[i] # Missing

\* A call bind(*args, type_selector=, argname=, target=, factory=, instance=, **kwargs).
BindCall(args, type_selector, argname, target, factory, instance, kwargs) ==
    [args |-> args, type_selector |-> type_selector, argname |-> argname,
     target |-> target, factory |-> factory, instance |-> instance, kwargs |-> kwargs]

\* _dispatch_arguments, the part that places the positional arguments.
PlacePositional(c) ==
    CASE Len(c.args) = 3 ->
            IF _forbid_kwargs(<<c.type_selector, c.argname, c.target>>) THEN Error("TypeError")
            ELSE Returned([c EXCEPT !.type_selector = c.args[1], !.argname = c.args[2],
                                    !.target = c.args[3]])
      [] Len(c.args) = 2 ->
            IF _forbid_kwargs(<<c.type_selector, c.argname>>) THEN Error("TypeError")
            ELSE IF c.factory # Missing \/ c.instance # Missing \/ c.target # Missing
            THEN Returned([c EXCEPT !.type_selector = c.args[1], !.argname = c.args[2]])
            ELSE Returned([c EXCEPT !.type_selector = c.args[1], !.target = c.args[2],
                                    !.argname = None])
      [] Len(c.args) = 1 ->
            IF _forbid_kwargs(<<c.type_selector>>) THEN Error("TypeError")
            ELSE Returned([c EXCEPT !.type_selector = c.args[1]])
      [] Len(c.args) = 0 -> Returned(c)
      [] OTHER -> Error("TypeError")

\* _dispatch_arguments without the test that only one of target, factory and
\* instance is given: the first of them that is given is used.
dispatch_arguments_first_given(c) ==
    IF IsError(PlacePositional(c)) THEN PlacePositional(c)
    ELSE LET d == PlacePositional(c)[2]
             argname == IF d.argname = Missing THEN None ELSE d.argname
             type_selector == IF d.type_selector = Missing THEN None ELSE d.type_selector
             factory_record ==
                 IF d.target # Missing THEN _wrap_generic_target(d.target, d.kwargs)
                 ELSE IF d.factory # Missing THEN _wrap_factory_func(d.factory, d.kwargs)
                 ELSE IF d.instance # Missing THEN _wrap_instance(d.instance, d.kwargs)
                 ELSE Error("TypeError")
         IN IF IsError(factory_record) THEN factory_record
            ELSE <<type_selector, argname, factory_record[2]>>

_dispatch_arguments(c) ==
    IF IsError(PlacePositional(c)) THEN PlacePositional(c)
    ELSE LET d == PlacePositional(c)[2]
             argname == IF d.argname = Missing THEN None ELSE d.argname
             type_selector == IF d.type_selector = Missing THEN None ELSE d.type_selector
             given == {t \in {"target", "factory", "instance"} : d[t] # Missing}
             factory_record ==
                 IF d.target # Missing THEN _wrap_generic_target(d.target, d.kwargs)
                 ELSE IF d.factory # Missing THEN _wrap_factory_func(d.factory, d.kwargs)
                 ELSE _wrap_instance(d.instance, d.kwargs)
         IN IF Cardinality(given) > 1 THEN Error("TypeError")
            ELSE IF given = {} THEN Error("TypeError")
            ELSE IF IsError(factory_record) THEN factory_record
            ELSE <<type_selector, argname, factory_record[2]>>

\* _add_binding that appends the predicate before it looks at argname.
add_binding_append_first(fmap, matchers, type_selector, argname, factory_record) ==
    IF IsFunction(type_selector)
    THEN Returned(<<fmap, Append(matchers, <<type_selector, factory_record>>)>>)
    ELSE Returned(<<SetItem(fmap, <<type_selector, argname>>, factory_record), matchers>>)

\* _add_binding, as a value: the map and the predicate list it leaves, or the error.
_add_binding(fmap, matchers, type_selector, argname, factory_record) ==
    IF IsFunction(type_selector)
    THEN IF argname # None THEN Error("ValueError")
         ELSE Returned(<<fmap, Append(matchers, <<type_selector, factory_record>>)>>)
    ELSE Returned(<<SetItem(fmap, <<type_selector, argname>>, factory_record), matchers>>)

\* FactoryBox.bind: answer keeps the call and how it ended.
FactoryBox_bind(c) ==
    /\ nbinds < MaxBinds
    /\ nbinds' = nbinds + 1
    /\ LET d == _dispatch_arguments(c)
           r == IF IsError(d) THEN d
                ELSE _add_binding(factories_map, func_bindings, d[1], d[2], d[3])
       IN /\ answer' = <<"bind", c, IF IsError(r) THEN r ELSE Returned(None),
                            <<factories_map, func_bindings>>>>
          /\ factories_map' = IF IsError(r) THEN factories_map ELSE r[2][1]
          /\ func_bindings' = IF IsError(r) THEN func_bindings ELSE r[2][2]
    /\ UNCHANGED <<items, objects, tasks, running, finished, events>>

\* The loop over func_matchers taken from the last registered to the first.
LastMatcher(matchers, i, requested_type) ==
    LET accepting == {j \in 1..Len(matchers) : Accepts(matchers[j][1], requested_type) = "TRUE"}
    IN IF accepting = {} THEN NoMatch
       ELSE <<matchers[CHOOSE j \in accepting : \A h \in accepting : h <= j][2],
              <<requested_type, None>>>>

\* for type_matcher, factory in self.func_matchers: the first that accepts.
RECURSIVE FirstMatcher(_, _, _)
FirstMatcher(matchers, i, requested_type) ==
    IF i > Len(matchers) THEN NoMatch
    ELSE IF Accepts(matchers[i][1], requested_type) = "raise" THEN Error("TypeError")
    ELSE IF Accepts(matchers[i][1], requested_type) = "TRUE"
    THEN <<matchers[i][2], <<requested_type, None>>>>
    ELSE FirstMatcher(matchers, i + 1, requested_type)

\* find_binding that takes a class as its own factory before asking the predicates.
find_binding_class_first(fmap, matchers, requested_type, argname) ==
    IF find_match(fmap, requested_type, argname) # NoMatch
    THEN find_match(fmap, requested_type, argname)
    ELSE IF requested_type = None \/ requested_type \in Unions THEN Error("ValueError")
    ELSE IF IsClass(requested_type)
    THEN <<_wrap_factory_func(requested_type, {})[2], <<requested_type, None>>>>
    ELSE IF FirstMatcher(matchers, 1, requested_type) # NoMatch
    THEN FirstMatcher(matchers, 1, requested_type)
    ELSE Error("ValueError")

find_binding(fmap, matchers, requested_type, argname) ==
    IF find_match(fmap, requested_type, argname) # NoMatch
    THEN find_match(fmap, requested_type, argname)
    ELSE IF requested_type = None \/ requested_type \in Unions THEN Error("ValueError")
    ELSE IF FirstMatcher(matchers, 1, requested_type) # NoMatch
    THEN FirstMatcher(matchers, 1, requested_type)
    ELSE IF ~IsClass(requested_type) THEN Error("ValueError")
    ELSE <<_wrap_factory_func(requested_type, {})[2], <<requested_type, None>>>>

FactoryBox_find_binding(requested_type, argname) ==
    /\ answer' = <<"find_binding", requested_type, argname,
                   find_binding(factories_map, func_bindings, requested_type, argname)>>
    /\ UNCHANGED <<items, container>>

\* Whatever may stand in a field of a BindingRecord, and the fields of a record.
FactoryValues ==
    {None} \cup Functions \cup Classes \cup Prebuilt \cup DOMAIN Partials \cup DOMAIN LambdaOf
\* The fields of every record, by record.
FieldsOf ==
    [r \in {BindingRecord(a, f) : a \in FactoryValues, f \in FactoryValues} |->
        CHOOSE p \in FactoryValues \X FactoryValues : BindingRecord(p[1], p[2]) = r]
async_factory(record) == FieldsOf[record][1]
sync_factory(record) == FieldsOf[record][2]

\* f(*args, **kwargs): what was called, and the result or the exception.
Invoke(f, awaited) ==
    [invoked |-> <<f>>, awaited |-> awaited /\ IsCallable(f),
     res |-> IF ~IsCallable(f) THEN Error("TypeError")
             ELSE IF Raises(f) THEN Error("Exception") ELSE Returned(ClassMade(f))]
NotInvoked(kind) == [invoked |-> <<>>, awaited |-> FALSE, res |-> Error(kind)]

\* call_sync that falls back on the asynchronous factory.
call_sync_any(record) ==
    IF sync_factory(record) = None THEN Invoke(async_factory(record), FALSE)
    ELSE Invoke(sync_factory(record), FALSE)

\* BindingRecord.call_sync
call_sync(record) ==
    IF sync_factory(record) = None THEN NotInvoked("RuntimeError")
    ELSE Invoke(sync_factory(record), FALSE)

\* BindingRecord.call_async
call_async(record) ==
    IF sync_factory(record) # None THEN call_sync(record)
    ELSE IF async_factory(record) = None THEN NotInvoked("RuntimeError")
    ELSE Invoke(async_factory(record), TRUE)

\* binding, _ = box.find_binding(t, n); binding.call_sync() or
\* await binding.call_async()
BindingRecord_call(requested_type, argname, how) ==
    /\ LET found == find_binding(factories_map, func_bindings, requested_type, argname)
       IN /\ ~IsError(found)
          /\ answer' = <<how, found[1],
                         IF how = "call_sync" THEN call_sync(found[1])
                         ELSE call_async(found[1]), found[2]>>
    /\ UNCHANGED <<items, container>>

(***************************************************************************)
(* A registry on its own: bindings are added, lookups are made.            *)
(***************************************************************************)
Positional(args) == BindCall(args, Missing, Missing, Missing, Missing, Missing, {})
BindCalls ==
    {Positional(<<"A", "mk">>), Positional(<<"A", "n", "mk">>),
     Positional(<<None, "n", "x1">>), Positional(<<"always_true", "mk">>),
     Positional(<<"is_a", "amk">>), Positional(<<"is_a", "n", "mk">>),
     Positional(<<"A">>),
     BindCall(<<"B">>, Missing, Missing, Missing, "amk", Missing, {}),
     BindCall(<<"A", "n">>, Missing, Missing, Missing, Missing, "x1", {}),
     BindCall(<<>>, "B", Missing, "mk", Missing, Missing, {}),
     BindCall(<<"B", "mk">>, Missing, Missing, Missing, Missing, Missing, {"n"})}
BindingQueries == Classes \cup Unions \cup Values_ \cup {None}

FBNext ==
    \/ \E c \in BindCalls : FactoryBox_bind(c)
    \/ \E t \in BindingQueries, n \in NameQueries : FactoryBox_find_binding(t, n)

SpecFB == Init /\ [][FBNext]_vars

(***************************************************************************)
(* A registry that is given bind calls of every shape.                     *)
(***************************************************************************)
MaxShapeCalls == 2
Selectors == {"A", "is_a"}
Targets == {"mk", "x1"}
PositionalForms ==
    {<<>>} \cup {<<sel>> : sel \in Selectors} \cup {<<sel, "n">> : sel \in Selectors}
        \cup {<<sel, x>> : sel \in Selectors, x \in Targets}
        \cup {<<sel, "n", x>> : sel \in Selectors, x \in Targets}
KeywordsGiven(c) ==
    {k \in {"type_selector", "argname", "target", "factory", "instance"} : c[k] # Missing}
\* Every call with at most three of the named parameters given by keyword; extra
\* keyword arguments come with at most one of them.
BindShapes ==
    {c \in {BindCall(args, sel, an, t, f, i, kw) :
                args \in PositionalForms, sel \in {Missing, "A"}, an \in {Missing, "n"},
                t \in {Missing} \cup Targets, f \in {Missing, "mk"},
                i \in {Missing, "x1"}, kw \in {{}, {"n"}}} :
        /\ Cardinality(KeywordsGiven(c)) <= 3
        /\ c.kwargs # {} => Cardinality(KeywordsGiven(c)) <= 1}

BindNext == \E c \in BindShapes : nbinds < MaxShapeCalls /\ FactoryBox_bind(c)

SpecBind == Init /\ [][BindNext]_vars

(***************************************************************************)
(* A container whose instances have start and close hooks of every kind:   *)
(* mkctx makes a service with all of them (the asynchronous ones suspend), *)
(* A and B are built from their classes, x1 is registered as it is.        *)
(***************************************************************************)
HookBinds == {<<"A", "mkctx", None>>, <<"A", "x1", "n">>, <<"B", "boom", None>>}
HookRequests == {<<"A", None>>, <<"B", None>>, <<"A", "n">>}

HookNext ==
    \/ \E b \in HookBinds : Wiring /\ Bind(b[1], b[2], b[3], {})
    \/ \E s \in Slots, r \in HookRequests : Provide(s, r[1], r[2])
    \/ \E s \in Slots : ProvideEnter(s)
    \/ \E s \in Slots : ProvideDependency(s)
    \/ \E s \in Slots : CreateInstance(s)
    \/ \E s \in Slots : Resume(s)
    \/ \E s \in Slots : StartInstance(s)
    \/ \E s \in Slots : RegisterInstance(s)
    \/ \E s \in Slots : Close(s)
    \/ \E s \in Slots : CloseNext(s)

SpecHooks == Init /\ [][HookNext]_vars

\* The event loop: a task that can take a step, or that can be resumed, does
\* so in the end.
Step(s) ==
    \/ ProvideEnter(s) \/ ProvideDependency(s) \/ CreateInstance(s) \/ Resume(s)
    \/ StartInstance(s) \/ RegisterInstance(s) \/ CloseNext(s)
EventLoop == \A s \in Slots : WF_vars(Step(s))

SpecHooksFair == SpecHooks /\ EventLoop

(***************************************************************************)
(* A container whose factories take parameters: a type argument, typed     *)
(* dependencies, defaults, variadic and untyped parameters, and keyword    *)
(* arguments fixed at bind time.                                           *)
(***************************************************************************)
InjectBinds ==
    {<<"B", "mk_t", None, {}>>, <<"B", "mk_t", None, {"n"}>>, <<"B", "mk_ta", "n", {}>>,
     <<"B", "mk_type", None, {}>>, <<"B", "mk_nu", None, {}>>, <<"is_a", "mk_ta", None, {}>>,
     <<"B", "mk_t", None, {"t"}>>}
InjectRequests ==
    {<<"A", None>>, <<"B", None>>, <<"B", "n">>, <<"A|B", None>>, <<"B|A", None>>}

InjectNext ==
    \/ \E b \in InjectBinds : Wiring /\ Bind(b[1], b[2], b[3], b[4])
    \/ \E r \in InjectRequests : Provide(1, r[1], r[2])
    \/ ProvideEnter(1)
    \/ ProvideDependency(1)
    \/ CreateInstance(1)
    \/ StartInstance(1)
    \/ RegisterInstance(1)

SpecInject == Init /\ [][InjectNext]_vars

(***************************************************************************)
(* A container used by one caller, call after call: it is wired, asked for *)
(* instances and closed.  Factories raise, return None or make an instance *)
(* whose start raises; B is bound to the value None, x1 is registered as   *)
(* it is.                                                                  *)
(***************************************************************************)
SeqBinds ==
    {<<"A", "mk_none", None>>, <<"A", "mk_bad", None>>, <<"A", "x1", "n">>,
     <<"B", None, None>>, <<"B", "boom", None>>}
SeqRequests == {<<"A", None>>, <<"A", "n">>, <<"B", None>>}

SeqNext ==
    \/ \E b \in SeqBinds : Wiring /\ Bind(b[1], b[2], b[3], {})
    \/ \E r \in SeqRequests : Provide(1, r[1], r[2])
    \/ ProvideEnter(1)
    \/ ProvideDependency(1)
    \/ CreateInstance(1)
    \/ StartInstance(1)
    \/ RegisterInstance(1)
    \/ Close(1)
    \/ CloseNext(1)

SpecSeq == Init /\ [][SeqNext]_vars

(***************************************************************************)
(* A container that is wired again between the calls: a key is bound to a  *)
(* factory or to a pre-built instance after instances were cached.         *)
(***************************************************************************)
RebindBinds == {<<"A", "mk", None>>, <<"A", "mk", "n">>, <<"A", "x1", None>>}
RebindRequests == {<<"A", None>>, <<"A", "n">>}

RebindNext ==
    \/ \E b \in RebindBinds : Bind(b[1], b[2], b[3], {})
    \/ \E r \in RebindRequests : Provide(1, r[1], r[2])
    \/ ProvideEnter(1)
    \/ CreateInstance(1)
    \/ StartInstance(1)
    \/ RegisterInstance(1)
    \/ Close(1)
    \/ CloseNext(1)

SpecRebind == Init /\ [][RebindNext]_vars

(***************************************************************************)
(* A registry whose records are called: bindings to synchronous and        *)
(* asynchronous factories, to classes and instances, then a lookup and a   *)
(* synchronous or asynchronous call of the record found.                   *)
(***************************************************************************)
CallBinds ==
    BindCalls \cup {BindCall(<<"B">>, Missing, Missing, Missing, "x1", Missing, {}),
                    BindCall(<<"A">>, Missing, Missing, Missing, "amk", Missing, {"n"}),
                    Positional(<<"B", "n", "boom">>)}

CallNext ==
    \/ \E c \in CallBinds : FactoryBox_bind(c)
    \/ \E t \in Classes, n \in NameQueries, how \in {"call_sync", "call_async"} :
          BindingRecord_call(t, n, how)

SpecCall == Init /\ [][CallNext]_vars

(***************************************************************************)
(* A container that is only wired: DIBox.bind with every kind of selector, *)
(* a factory or a pre-built instance, with and without a name and extra    *)
(* keyword arguments.                                                      *)
(***************************************************************************)
WireSelectors == {"A", None, "is_a"}
WireTargets == {"mk", "x1"}
WireNames == {None, "n"}
WireKwargs == {{}, {"n"}}

WireNext ==
    \E sel \in WireSelectors, to \in WireTargets, name \in WireNames, kwargs \in WireKwargs :
        Bind(sel, to, name, kwargs)

SpecWire == Init /\ [][WireNext]_vars

(***************************************************************************)
(* Claims about DIMap, checked under SpecMap.                              *)
(***************************************************************************)
IsFindMatchAnswer == Len(answer) = 4 /\ answer[1] = "find_match"

\* The keys _find_match may look under for (cls, name), highest precedence first.
Candidates(cls, name) ==
    <<<<cls, name>>>>
        \o (IF name # None THEN <<<<cls, None>>>> ELSE <<>>)
        \o (IF cls # None THEN <<<<None, name>>>> ELSE <<>>)

Present(k) == \E i \in 1..Len(items) : items[i].key = k
Stored(k) == items[CHOOSE i \in 1..Len(items) : items[i].key = k].val
Bound(k) == Present(k) /\ Stored(k) # None

\* The entry under the first candidate key that satisfies Has, or no match.
FirstEntry(cands, Has(_)) ==
    IF \A i \in 1..Len(cands) : ~Has(cands[i]) THEN NoMatch
    ELSE LET i == CHOOSE j \in 1..Len(cands) :
                    Has(cands[j]) /\ \A h \in 1..(j - 1) : ~Has(cands[h])
         IN <<Stored(cands[i]), cands[i]>>

\* C2 as stated: for a single type C (or None) and name N, find_match returns the
\* entry stored under (C, N) if present, otherwise (N present) the one under
\* (C, None) if present, otherwise (C present) the one under (None, N) if
\* present, otherwise no match; the key returned is the stored key.
\* (An entry that is present with the value None may be reported as no match:
\* the statement fails only when another entry is returned in its place.)
C2_AsStated ==
    (IsFindMatchAnswer /\ answer[2] \notin Unions) =>
        LET first == FirstEntry(Candidates(answer[2], answer[3]), Present)
        IN \/ answer[4] = first
           \/ first # NoMatch /\ first[1] = None /\ answer[4] = NoMatch

\* C2 amended: the same, where "present" means stored with a value that is not
\* None; an entry whose value is None is passed over.
C2_FindMatchPrecedence ==
    (IsFindMatchAnswer /\ answer[2] \notin Unions)
        => answer[4] = FirstEntry(Candidates(answer[2], answer[3]), Bound)

\* C2 witness: (A, "n") is asked for while (A, None) and (None, "n") are both
\* stored and (A, "n") is not: the type-only entry is returned with its own key.
C2_Witness ==
    /\ IsFindMatchAnswer /\ answer[2] = "A" /\ answer[3] = "n"
    /\ ~Present(<<"A", "n">>) /\ Bound(<<"A", None>>) /\ Bound(<<None, "n">>)
    /\ answer[4] = <<Stored(<<"A", None>>), <<"A", None>>>>

\* C7: for a union request the members are tried in declared order and the
\* first member with any match (exact, type-only or name-only) gives the
\* result; no member matching gives no match.
C7_UnionFirstMember ==
    (IsFindMatchAnswer /\ answer[2] \in Unions) =>
        LET args == UnionArgs[answer[2]]
            hit(i) == Candidates(args[i], answer[3])
            any(i) == \E j \in 1..Len(hit(i)) : Bound(hit(i)[j])
        IN IF \A i \in 1..Len(args) : ~any(i) THEN answer[4] = NoMatch
           ELSE LET i == CHOOSE j \in 1..Len(args) :
                            any(j) /\ \A h \in 1..(j - 1) : ~any(h)
                IN answer[4] = FirstEntry(hit(i), Bound)

\* C7 witness: "A|B" with name "n" is asked for while A matches only through the
\* name-only entry (None, "n") and B has its exact entry (B, "n"): the answer is
\* the name-only entry found for A.
C7_Witness ==
    /\ IsFindMatchAnswer /\ answer[2] = "A|B" /\ answer[3] = "n"
    /\ ~Present(<<"A", "n">>) /\ ~Present(<<"A", None>>)
    /\ Bound(<<None, "n">>) /\ Bound(<<"B", "n">>)
    /\ answer[4] = <<Stored(<<None, "n">>), <<None, "n">>>>

(***************************************************************************)
(* Claims about resolution, checked under SpecResolve.                     *)
(***************************************************************************)
Provided == {r \in finished : r.op = "provide" /\ ~IsError(r.res)}
Failed == {r \in finished : r.op = "provide" /\ IsError(r.res)}
Registered(k) == HasKey(factories_map, k)

\* The key an instance was built for (the key its factory was found under).
BuiltFor(obj) ==
    IF obj \in {ObjName[i] : i \in 1..Len(objects)}
    THEN objects[CHOOSE i \in 1..Len(objects) : ObjName[i] = obj].key
    ELSE <<"prebuilt", obj>>

\* C1 as stated: any two completed provide calls, made one after the other with
\* equal (type, name) requests, returned the identical instance, and no key had
\* its factory invoked more than once.
C1_AsStated ==
    /\ \A r1, r2 \in Provided :
          (r1.solo /\ r2.solo /\ r1.rt = r2.rt /\ r1.name = r2.name) => r1.res = r2.res
    /\ \A i, j \in 1..Len(objects) : objects[i].key = objects[j].key => i = j

\* C3 as stated: with factories registered under (A, "n"), (A, None) and
\* (None, "n"), every provide(A, "n") returned the instance built for (A, "n")
\* and every provide(A, "m") the instance built for (A, None), whichever calls
\* were completed before it.
C3_AsStated ==
    (Registered(<<"A", "n">>) /\ Registered(<<"A", None>>) /\ Registered(<<None, "n">>)) =>
        \A r \in Provided :
            /\ (r.rt = "A" /\ r.name = "n") => BuiltFor(r.res[2]) = <<"A", "n">>
            /\ (r.rt = "A" /\ r.name = "m") => BuiltFor(r.res[2]) = <<"A", None>>

C8_AsStated ==
    \A r \in Provided : (r.rt = "A|B" /\ r.name = None) =>
        /\ (Registered(<<"A", None>>) /\ Registered(<<"B", None>>))
              => BuiltFor(r.res[2]) = <<"A", None>>
        /\ (/\ ~Registered(<<"A", None>>) /\ Registered(<<"B", None>>)
            /\ \A i \in 1..Len(objects) : objects[i].key # <<"A", None>>)
              => BuiltFor(r.res[2]) = <<"B", None>>

\* C10 as stated: a provide call whose requested type is None or a union, that
\* found no match in the store and has no match in the exact map of the
\* registry, failed with the no-binding error (ValueError): no predicate was
\* consulted and nothing was constructed for it.
C10_AsStated ==
    \A r \in finished :
        (/\ r.op = "provide" /\ r.rt \in Unions \cup {None} /\ ~r.hit
         /\ find_match(factories_map, r.rt, r.name) = NoMatch)
            => r.res = Error("ValueError") /\ r.made = {}

(***************************************************************************)
(* Claims about concurrent use and close, checked under SpecLife.          *)
(***************************************************************************)
IsEvent(i, kind) == events[i][1] = kind
Closings == {i \in 1..Len(events) : IsEvent(i, "close")}
\* The store was written for key k at event i.
IsSet(i, k) == IsEvent(i, "set") /\ events[i][3] = k
\* The store was not cleared at events i..j.
Uncleared(i, j) == \A h \in i..j : ~IsEvent(h, "clear")

\* The instances a close call has closed so far, in order, and those it was
\* to close: the values of the store it found, last inserted first, that
\* have a close method.
ClosedBy(f) ==
    LET since == SubSeq(events, f.seen + 1, Len(events))
        closes == SelectSeq(since, LAMBDA e : e[1] = "close")
    IN [i \in 1..Len(closes) |-> closes[i][2]]
ToCloseBy(f) ==
    LET rev == [i \in 1..(f.used - f.pos) |-> items[f.used + 1 - i].val]
    IN SelectSeq(rev, LAMBDA o : _lookup_method(o, close_methods) # "")

\* C4 as stated: a close call invokes the close hook of the stored instances in
\* exactly the reverse of the order in which their keys were first inserted,
\* and closes no instance twice.
C4_AsStated ==
    \A s \in Slots : (Closing(s) /\ Len(items) = Top(s).used) =>
        /\ ClosedBy(Top(s)) = ToCloseBy(Top(s))
        /\ \A i, j \in 1..Len(ClosedBy(Top(s))) :
              ClosedBy(Top(s))[i] = ClosedBy(Top(s))[j] => i = j

\* The instance written at event i was overwritten under its key at event j,
\* before the store was cleared.
OverwrittenAt(i, j) ==
    /\ IsEvent(i, "set") /\ i < j
    /\ IsSet(j, events[i][3]) /\ events[j][2] # events[i][2] /\ Uncleared(i, j)
Overwritten(i) == \E j \in (i + 1)..Len(events) : OverwrittenAt(i, j)

IsFindBindingAnswer == Len(answer) = 4 /\ answer[1] = "find_binding"
AcceptedBy(i, t) == Accepts(func_bindings[i][1], t) = "TRUE"
RejectedBy(i, t) == Accepts(func_bindings[i][1], t) = "FALSE"

\* C9: find_binding consults the predicate bindings only when the exact map has
\* no match for the request (an exact match is returned whatever the predicates
\* would do); it then tries them in registration order and returns the record
\* of the first predicate that accepts the requested type, under the key
\* (requested type, None): the requested name is dropped.
C9_PredicateOrder ==
    IsFindBindingAnswer =>
        LET t == answer[2]
            exact == find_match(factories_map, t, answer[3])
        IN /\ exact # NoMatch => answer[4] = exact
           /\ (exact = NoMatch /\ t \notin Unions \cup {None}) =>
                \A i \in 1..Len(func_bindings) :
                    (AcceptedBy(i, t) /\ \A h \in 1..(i - 1) : RejectedBy(h, t))
                        => answer[4] = <<func_bindings[i][2], <<t, None>>>>

\* C9 witness: (A, "m") is looked up while the exact map has no match for it and
\* two predicates that both accept A are registered with different records:
\* the answer is the record of the one registered first, under (A, None).
C9_Witness ==
    /\ IsFindBindingAnswer /\ answer[2] = "A" /\ answer[3] = "m"
    /\ find_match(factories_map, "A", "m") = NoMatch
    /\ Len(func_bindings) >= 2
    /\ AcceptedBy(1, "A") /\ AcceptedBy(2, "A")
    /\ func_bindings[1][2] # func_bindings[2][2]
    /\ answer[4] = <<func_bindings[1][2], <<"A", None>>>>

\* C11: for a class T with no exact-map match and no accepting predicate,
\* find_binding returns the record whose (synchronous) factory is T itself, under
\* the key (T, None); when the exact map has a match, or a predicate accepts T
\* (those before it rejecting), that entry is returned and not the class itself.
C11_ImplicitBinding ==
    (IsFindBindingAnswer /\ answer[2] \in Classes) =>
        LET t == answer[2]
            exact == find_match(factories_map, t, answer[3])
            accepting == {i \in 1..Len(func_bindings) : AcceptedBy(i, t)}
            first == CHOOSE i \in accepting : \A h \in accepting : i <= h
        IN IF exact # NoMatch THEN answer[4] = exact
           ELSE IF accepting # {} THEN answer[4] = <<func_bindings[first][2], <<t, None>>>>
           ELSE answer[4] = <<BindingRecord(None, t), <<t, None>>>>

\* C11 witness: (B, "n") is looked up while the exact map has no match for it
\* and the one predicate registered rejects B: the answer is B as its own
\* factory under (B, None).
C11_Witness ==
    /\ IsFindBindingAnswer /\ answer[2] = "B" /\ answer[3] = "n"
    /\ find_match(factories_map, "B", "n") = NoMatch
    /\ Len(func_bindings) = 1 /\ RejectedBy(1, "B")
    /\ answer[4] = <<BindingRecord(None, "B"), <<"B", None>>>>

(***************************************************************************)
(* Claims about resolve, close and the scope of a container (SpecLife).    *)
(***************************************************************************)
\* This step is a call of resolve.
ResolveStep == answer' # answer /\ answer'[1] = "resolve"

\* The entry of the store that the matcher gives for (t, n): for a union, that
\* of the first member with any candidate key stored.
StoreEntry(t, n) ==
    LET members == IF t \in Unions THEN UnionArgs[t] ELSE <<t>>
        any(i) == \E j \in 1..Len(Candidates(members[i], n)) :
                      Bound(Candidates(members[i], n)[j])
    IN IF \A i \in 1..Len(members) : ~any(i) THEN NoMatch
       ELSE FirstEntry(Candidates(
                members[CHOOSE i \in 1..Len(members) : any(i) /\ \A h \in 1..(i - 1) : ~any(h)],
                n), Bound)

\* C12: resolve returns the cached instance the matcher finds in the store, or
\* fails with KeyError, whatever the registry holds (bindings, predicates) and
\* whether or not the type could be constructed; the call makes no object,
\* invokes no hook, and leaves the store, the registry and the calls in flight
\* unchanged.
C12_ResolveNeverConstructs ==
    [][ResolveStep =>
        /\ answer'[4] = IF StoreEntry(answer'[2], answer'[3]) = NoMatch
                        THEN Error("KeyError")
                        ELSE Returned(StoreEntry(answer'[2], answer'[3])[1])
        /\ UNCHANGED <<items, factories_map, func_bindings, objects, events, tasks,
                       finished>>]_vars

\* C12 witness: resolve(A) failed with KeyError on an empty store although a
\* factory is registered for A; nothing was constructed.
C12_Witness ==
    /\ Len(answer) = 4 /\ answer[1] = "resolve" /\ answer[2] = "A" /\ answer[3] = None
    /\ answer[4] = Error("KeyError")
    /\ Registered(<<"A", None>>) /\ items = <<>> /\ objects = <<>>

Closed == {r \in finished : r.op \in {"close", "__aexit__"}}
LastIsClear == events # <<>> /\ IsEvent(Len(events), "clear")
\* A close call attempted every instance it found that has a close method.
AllAttempted(r) ==
    \A i \in 1..Len(r.found) :
        _lookup_method(r.found[i], close_methods) # ""
            => \E j \in 1..Len(r.closed) : r.closed[j] = r.found[i]

\* C13: when close has processed all entries the store is empty; a close call
\* that follows it with nothing stored in between invokes no close method and
\* succeeds, and resolve then fails with KeyError for every request.
C13_CloseIdempotent ==
    /\ [](/\ LastIsClear => items = <<>>
          /\ \A r \in Closed :
                /\ r.res = Returned(None) => r.cleared
                /\ (r.seen > 0 /\ IsEvent(r.seen, "clear"))
                      => r.closed = <<>> /\ r.res = Returned(None))
    /\ [][(ResolveStep /\ LastIsClear) => answer'[4] = Error("KeyError")]_vars

\* C13 witness: a close call closed an instance and cleared the store, the close
\* call after it found the store empty and closed nothing, and a resolve made
\* after both failed with KeyError.
C13_Witness ==
    /\ \E r1, r2 \in Closed :
          /\ r1.n < r2.n /\ r1.closed # <<>> /\ r1.res = Returned(None)
          /\ r2.seen > 0 /\ IsEvent(r2.seen, "clear") /\ r2.closed = <<>>
    /\ LastIsClear
    /\ Len(answer) = 4 /\ answer[1] = "resolve" /\ answer[4] = Error("KeyError")

\* C14 as stated: every exit from the scope of the container, after a body that
\* ended normally or failed, left each instance that was cached at exit time
\* with its close method invoked, and the store empty; entering the scope gives
\* the container and changes nothing.
C14_AsStated ==
    /\ [](\A r \in finished : r.op = "__aexit__" => AllAttempted(r) /\ r.cleared)
    /\ [][(answer' # answer /\ answer'[1] = "__aenter__")
             => answer'[2] = "self" /\ UNCHANGED <<items, container>>]_vars

\* C15 as stated: a close call in which the close method of an instance failed
\* still invoked the close method of every other instance it found, and left
\* the store empty.
C15_AsStated ==
    \A r \in Closed : IsError(r.res) => AllAttempted(r) /\ r.cleared

(***************************************************************************)
(* Claims about the bind calls of FactoryBox, checked under SpecBind.      *)
(***************************************************************************)
IsBindAnswer == Len(answer) = 4 /\ answer[1] = "bind"
\* This step is a call of FactoryBox.bind; answer' holds the call.
BindStep == nbinds' = nbinds + 1
registry == <<factories_map, func_bindings>>

\* How many of target, factory and instance a call supplies: those given by
\* keyword, and the target given by position (the third positional argument,
\* or the second when none of the three is given by keyword).
PositionalTarget(c) ==
    \/ Len(c.args) = 3
    \/ Len(c.args) = 2 /\ KeywordsGiven(c) \cap {"target", "factory", "instance"} = {}
Supplied(c) ==
    Cardinality(KeywordsGiven(c) \cap {"target", "factory", "instance"})
        + (IF PositionalTarget(c) THEN 1 ELSE 0)

\* C16: a bind call that supplies none of target, factory and instance, or more
\* than one of them, ends with an error and leaves the exact map and the
\* predicate list as they were.
C16_ExactlyOneTarget ==
    [][(BindStep /\ Supplied(answer'[2]) # 1)
          => IsError(answer'[3]) /\ UNCHANGED registry]_vars

\* C16 witness: after a binding was registered, bind(A, "n", target=mk,
\* factory=mk) was rejected with TypeError.
C16_Witness ==
    /\ IsBindAnswer
    /\ answer[2] = BindCall(<<"A", "n">>, Missing, Missing, "mk", "mk", Missing, {})
    /\ answer[3] = Error("TypeError")
    /\ Len(factories_map) + Len(func_bindings) = 1

\* The keys of an exact map, and the record it holds under a key.
KeysOf(m) == {m[i].key : i \in 1..Len(m)}
RecordAt(m, k) == m[CHOOSE i \in 1..Len(m) : m[i].key = k].val

\* C19: every successful bind changes the registry by exactly one entry. For a
\* selector that is not a function the exact map holds the new record under
\* (selector, name), in place of the record that was there if there was one,
\* every other entry is as it was and the predicate list is unchanged; for a
\* function selector one (predicate, record) pair is added at the end of the
\* predicate list and the exact map is unchanged. The exact map never holds two
\* records under one key.
C19_OneEntryPerBind ==
    [][(BindStep /\ ~IsError(answer'[3])) =>
        LET d == _dispatch_arguments(answer'[2])
            key == <<d[1], d[2]>>
        IN IF IsFunction(d[1])
           THEN /\ factories_map' = factories_map
                /\ func_bindings' = Append(func_bindings, <<d[1], d[3]>>)
           ELSE /\ func_bindings' = func_bindings
                /\ KeysOf(factories_map') = KeysOf(factories_map) \cup {key}
                /\ RecordAt(factories_map', key) = d[3]
                /\ \A k \in KeysOf(factories_map) \ {key} :
                      RecordAt(factories_map', k) = RecordAt(factories_map, k)
                /\ Len(factories_map') = Cardinality(KeysOf(factories_map'))]_vars

\* C19 witness: bind(A, "n", instance=x1) succeeded on a registry that held
\* another record under (A, "n") and one predicate: the exact map still has one
\* entry, now the record of x1, and the predicate list is the one the call found.
C19_Witness ==
    /\ IsBindAnswer
    /\ answer[2] = BindCall(<<"A", "n">>, Missing, Missing, Missing, Missing, "x1", {})
    /\ answer[3] = Returned(None)
    /\ KeysOf(answer[4][1]) = {<<"A", "n">>}
    /\ RecordAt(answer[4][1], <<"A", "n">>) # RecordAt(factories_map, <<"A", "n">>)
    /\ Len(factories_map) = 1 /\ Len(answer[4][2]) = 1 /\ func_bindings = answer[4][2]

\* The call shapes the interface gives for binding target X under selector S
\* and name N (None: no name): positional, the target by keyword, the name by
\* keyword, everything by keyword, and factory= or instance= in place of
\* target= for a callable or a non-callable X.
NameArgs(N) == IF N = None THEN <<>> ELSE <<N>>
NameKeyword(N) == IF N = None THEN Missing ELSE N
ShapesOf(S, N, X) ==
    {Positional(<<S>> \o NameArgs(N) \o <<X>>),
     BindCall(<<S>> \o NameArgs(N), Missing, Missing, X, Missing, Missing, {}),
     BindCall(<<S>>, Missing, NameKeyword(N), X, Missing, Missing, {}),
     BindCall(<<>>, S, NameKeyword(N), X, Missing, Missing, {})}
    \cup (IF IsCallable(X)
          THEN {BindCall(<<S>> \o NameArgs(N), Missing, Missing, Missing, X, Missing, {}),
                BindCall(<<S>>, Missing, NameKeyword(N), Missing, X, Missing, {})}
          ELSE {BindCall(<<S>> \o NameArgs(N), Missing, Missing, Missing, Missing, X, {}),
                BindCall(<<S>>, Missing, NameKeyword(N), Missing, Missing, X, {})})

\* How bind(S, N, X), all three by position, ends on a registry, and the
\* registry it leaves.
Outcome(reg, S, N, X) ==
    LET d == _dispatch_arguments(Positional(<<S, N, X>>))
        r == IF IsError(d) THEN d ELSE _add_binding(reg[1], reg[2], d[1], d[2], d[3])
    IN IF IsError(r) THEN <<r, reg>> ELSE <<Returned(None), r[2]>>

\* C20: the call shapes of bind are equivalent: for a selector S, a name N and
\* a target X, bind(S, X) (N absent), bind(S, N, X), bind(S, N, target=X),
\* bind(S, argname=N, target=X), bind(type_selector=S, argname=N, target=X),
\* and the factory= (X callable) or instance= (X not callable) forms, all end
\* as bind(S, N, X) does on the same registry and leave the same registry; a
\* successful call with a selector that is not a function leaves a record
\* under the key (S, N).
C20_ShapesEquivalent ==
    [][BindStep =>
        \A S \in Selectors, N \in {None, "n"}, X \in Targets :
            answer'[2] \in ShapesOf(S, N, X) =>
                /\ <<answer'[3], registry'>> = Outcome(registry, S, N, X)
                /\ (~IsError(answer'[3]) /\ ~IsFunction(S))
                      => <<S, N>> \in KeysOf(factories_map')]_vars

\* C20 witness: after bind(A, "n", mk), the call bind(type_selector=A,
\* argname="n", target=x1) replaced the record under (A, "n"); and the registry
\* is the one bind(A, "n", x1) leaves.
C20_Witness ==
    /\ IsBindAnswer
    /\ answer[2] = BindCall(<<>>, "A", "n", "x1", Missing, Missing, {})
    /\ answer[3] = Returned(None)
    /\ KeysOf(answer[4][1]) = {<<"A", "n">>}
    /\ RecordAt(answer[4][1], <<"A", "n">>) = BindingRecord(None, "mk")
    /\ <<answer[3], registry>> = Outcome(answer[4], "A", "n", "x1")
    /\ RecordAt(factories_map, <<"A", "n">>) = BindingRecord(None, Lambda("x1"))

(***************************************************************************)
(* Claims about the bind calls of the container, checked under SpecWire.   *)
(***************************************************************************)
\* C17 as stated: a bind call whose selector is a predicate function and that
\* gives an argument name is rejected with an error and adds no entry to the
\* predicate list, so that every entry of the list was registered without a
\* name.
C17_AsStated ==
    [][(\E sel \in WireSelectors \cap Predicates, to \in WireTargets, kwargs \in WireKwargs :
            Bind(sel, to, "n", kwargs))
          => IsError(answer') /\ UNCHANGED func_bindings]_vars

\* C18 as stated: a bind call that gives extra keyword arguments together with
\* a pre-built instance is rejected with an error, whatever the selector (a
\* class, None or a predicate), and registers nothing: the registry and the
\* store are as they were.
C18_AsStated ==
    [][(\E sel \in WireSelectors, to \in WireTargets \cap Prebuilt, name \in WireNames :
            Bind(sel, to, name, {"n"}))
          => IsError(answer') /\ UNCHANGED <<registry, items>>]_vars

(***************************************************************************)
(* Claims about the start and close hooks, checked under SpecHooks.        *)
(***************************************************************************)
\* The start capability of a class in the stated priority: async-context-enter,
\* start, sync-context-enter; "" when it exposes none.
StartOf(cls) ==
    IF "__aenter__" \in Methods(cls) THEN "__aenter__"
    ELSE IF "start" \in Methods(cls) THEN "start"
    ELSE IF "__enter__" \in Methods(cls) THEN "__enter__"
    ELSE ""
\* The events at which a start method of obj was invoked, the events at which
\* obj was written to the store.
Starts(obj) == {e \in 1..Len(events) : IsEvent(e, "start") /\ events[e][2] = obj}
Sets(obj) == {e \in 1..Len(events) : IsEvent(e, "set") /\ events[e][2] = obj}
\* obj is being made by a call: its factory was called, its start is not over.
InTheMaking(obj) ==
    \E s \in Slots :
        /\ Live(s) /\ tasks[s].op = "provide"
        /\ \E i \in 1..Len(tasks[s].stack) :
              /\ tasks[s].stack[i].obj = obj
              /\ tasks[s].stack[i].phase \in {"await factory", "start", "await start"}

\* C21: on an instance that was created exactly one start capability is invoked,
\* once: the first it exposes in the order async-context-enter, start,
\* sync-context-enter, none if it exposes none; the start is over before the
\* instance is written to the store or returned to a caller, and no start is
\* invoked on it afterwards (when it is returned from the cache).
C21_StartOnce ==
    \A i \in 1..Len(objects) :
        LET obj == ObjName[i]
            first == StartOf(objects[i].cls)
        IN /\ Cardinality(Starts(obj)) <= 1
           /\ \A e \in Starts(obj) : events[e][3] = first /\ first # ""
           /\ InTheMaking(obj) =>
                 /\ Sets(obj) = {}
                 /\ \A k \in 1..Len(items) : items[k].val # obj
                 /\ \A r \in Provided : r.res[2] # obj
           /\ \A e \in Sets(obj) : first # "" => \E b \in Starts(obj) : b < e
           /\ \A r \in Provided : (r.res[2] = obj /\ first # "") => Starts(obj) # {}

\* C21 witness: mkctx made an instance that exposes all three start
\* capabilities; its async-context-enter was invoked, and suspended, before it
\* was written to the store; a later provide got it from the cache and no second
\* start was invoked.
C21_Witness ==
    \E i \in 1..Len(objects) :
        /\ objects[i].cls = "ASvc"
        /\ {"__aenter__", "start", "__enter__"} \subseteq Methods("ASvc")
        /\ \E e \in Starts(ObjName[i]) : events[e][3] = "__aenter__"
        /\ \E r1, r2 \in Provided :
              /\ r1.n < r2.n /\ ~r1.hit /\ r2.hit /\ r2.solo
              /\ r1.res[2] = ObjName[i] /\ r2.res[2] = ObjName[i]
        /\ Cardinality(Starts(ObjName[i])) = 1

\* The close capability of a class in the stated priority: async-context-exit,
\* aclose, close, sync-context-exit; "" when it exposes none.
CloseOf(cls) ==
    IF "__aexit__" \in Methods(cls) THEN "__aexit__"
    ELSE IF "aclose" \in Methods(cls) THEN "aclose"
    ELSE IF "close" \in Methods(cls) THEN "close"
    ELSE IF "__exit__" \in Methods(cls) THEN "__exit__"
    ELSE ""
\* The arguments the stated rule gives a close capability: three empty
\* placeholders for the two context exits, none for the others.
PlaceholdersOf(method) ==
    IF method \in {"__aexit__", "__exit__"} THEN <<None, None, None>> ELSE <<>>

\* C22 as stated: a close call invoked, for each instance the store held (once
\* for each entry that holds it), exactly one close capability: the first the
\* instance exposes in the order async-context-exit, aclose, close,
\* sync-context-exit, with three empty placeholders for the context exits and no
\* argument for the others; none for an instance that exposes none.
C22_AsStated ==
    \A r \in Closed : r.solo =>
        \A k \in 1..Len(r.found) :
            LET v == r.found[k]
                entries == {h \in 1..Len(r.found) : r.found[h] = v}
                mine == {j \in 1..Len(r.hooks) : r.hooks[j][2] = v}
            IN IF CloseOf(ClassOf(v)) = "" THEN mine = {}
               ELSE /\ Cardinality(mine) = Cardinality(entries)
                    /\ \A j \in mine :
                          /\ r.hooks[j][3] = CloseOf(ClassOf(v))
                          /\ r.hooks[j][4] = PlaceholdersOf(r.hooks[j][3])

(***************************************************************************)
(* Claims about the arguments of factories, checked under SpecInject.      *)
(***************************************************************************)
\* The frames of the calls in flight that have chosen their factory.
Chosen == {f \in UNION {{tasks[s].stack[i] : i \in 1..Len(tasks[s].stack)} :
                            s \in {q \in Slots : Live(q) /\ tasks[q].op = "provide"}} :
              f.phase # "enter"}
\* The annotations that denote a type value: the plain type of types, and a
\* type of some target.
TypeValued == {"type", "type[A]", "type[Any]"}
OverrideNames(f) == {a[1] : a \in f.over}

\* C23 as stated: the first declared parameter of the chosen factory is bound
\* to a type value exactly when it has no annotation, is annotated with the
\* plain type of types, or is annotated as a type of some target; the parameter
\* bound this way is not among the dependencies that are resolved, and no
\* parameter at another position is bound this way.
C23_AsStated ==
    \A f \in Chosen :
        LET ps == Parameters(f.fac)
        IN /\ ps # <<>> =>
                 (ps[1].name \in OverrideNames(f)
                     <=> ps[1].annotation \in {Empty} \cup TypeValued)
           /\ \A i \in 2..Len(ps) : ps[i].name \notin OverrideNames(f)
           /\ ps = <<>> => f.over = {}
           /\ \A i \in 1..Len(f.deps) : f.deps[i][1] \notin OverrideNames(f)

\* C24 as stated: the value bound to the first (type) parameter of the factory
\* is the type component of the matched key: for a union request matched on a
\* member it is that member, not the union; for a predicate or implicit match
\* on T it is T.
C24_AsStated ==
    \A f \in Chosen : \A a \in f.over : a[2] = f.key[1]

\* The parameter of factory f that receives the type argument (none: {}), and
\* its required parameters: no default, not variadic, with a declared type,
\* not the one that receives the type argument.
TypeArgument(f) ==
    IF Parameters(f) # <<>> /\ Parameters(f)[1].annotation \in {Empty} \cup TypeOf
    THEN {Parameters(f)[1].name} ELSE {}
Required(f) ==
    {k \in 1..Len(Parameters(f)) :
        /\ Parameters(f)[k].default = Empty
        /\ Parameters(f)[k].kind = "POSITIONAL_OR_KEYWORD"
        /\ Parameters(f)[k].annotation # Empty
        /\ Parameters(f)[k].name \notin TypeArgument(f)}
\* The store was written with value v under a key that serves the request
\* (t, n).
WrittenFor(v, t, n) ==
    \E e \in 1..Len(events) :
        /\ IsEvent(e, "set") /\ events[e][2] = v
        /\ \E c \in 1..Len(Candidates(t, n)) : events[e][3] = Candidates(t, n)[c]

\* C25: when a factory is invoked for provide, each of its required parameters
\* (no default, not variadic, with a declared type, not bound as the type
\* argument) has been resolved by a provide of (declared type, parameter name)
\* that was completed before: the factory receives an instance the store was
\* written with for that request; a parameter with a default or without a
\* declared type is not resolved and not passed; the parameter bound as the
\* type argument receives the type, not a resolved instance.
C25_DependenciesFirst ==
    \A i \in 1..Len(objects) :
        LET f == objects[i].fac
            ps == Parameters(f)
            args == objects[i].args
        IN /\ {a[1] : a \in args} = {ps[k].name : k \in Required(f)} \cup TypeArgument(f)
           /\ \A a, b \in args : a[1] = b[1] => a = b
           /\ \A k \in Required(f) : \E a \in args :
                 /\ a[1] = ps[k].name
                 /\ a[2] \in {ObjName[j] : j \in 1..(i - 1)}
                 /\ WrittenFor(a[2], ps[k].annotation, ps[k].name)
           /\ \A a \in args : a[1] \in TypeArgument(f) => a[2] \in Classes \cup Unions

\* C25 witness: mk_t(t, n: A) was invoked for B with t = B and, for n, the
\* instance that provide(A, "n") had built and stored before; mk_ta(t: type[A],
\* d: B = ..., *rest: A) was invoked with the type argument alone.
C25_Witness ==
    \E i, j \in 1..Len(objects) :
        /\ objects[i].fac = "mk_t"
        /\ \E h \in 1..(i - 1) : objects[i].args = {<<"t", "B">>, <<"n", ObjName[h]>>}
        /\ objects[j].fac = "mk_ta" /\ objects[j].args = {<<"t", "B">>}

(***************************************************************************)
(* Claims about the calls of a BindingRecord, checked under SpecCall.      *)
(***************************************************************************)
IsCallAnswer == Len(answer) = 4 /\ answer[1] \in {"call_sync", "call_async"}
\* A record has at least one factory.
HasFactory(record) == async_factory(record) # None \/ sync_factory(record) # None
\* The records the registry holds.
RecordsHeld ==
    {factories_map[i].val : i \in 1..Len(factories_map)}
        \cup {func_bindings[i][2] : i \in 1..Len(func_bindings)}

C27_AsStated ==
    \A i \in 1..Len(objects) :
        LET f == objects[i].fac
            passed == {a[1] : a \in objects[i].args}
        IN /\ Keywords(f) \cap passed = {}
           /\ \A k \in Required(f) : Parameters(f)[k].name \in passed

(***************************************************************************)
(* Claims about the store as a whole, checked under SpecLife.              *)
(***************************************************************************)
\* This step is taken by a provide call.
ProvideStep == \E s \in Slots : running = s /\ tasks[s].op = "provide"

\* C28 as stated, for provide: a step of a provide call, whatever the
\* interleaving of concurrent provide calls, leaves every (key, instance) pair
\* of the store as it was: no entry is removed and no stored instance is
\* replaced.
C28_AsStated ==
    [][ProvideStep =>
          \A i \in 1..Len(items) : i <= Len(items') /\ items'[i] = items[i]]_vars

(***************************************************************************)
(* Termination of provide, checked under SpecHooksFair.                    *)
(***************************************************************************)
\* C29: with a finite acyclic dependency graph and factories and start
\* capabilities that terminate, every provide call that was made is over in
\* the end, with an instance or with an error: none stays suspended for ever.
C29_ProvideCompletes ==
    \A s \in Slots : (Live(s) /\ tasks[s].op = "provide") ~> ~Live(s)

\* C29 witness: provide(B), made while another call was in flight, had its
\* dependency A built by mkctx, was suspended in the start of that instance,
\* was resumed, and ended with the failure of its own factory.
C29_Witness ==
    \E r \in Failed :
        /\ r.rt = "B" /\ ~r.solo /\ r.res = Error("Exception")
        /\ \E i \in r.made : objects[i].cls = "ASvc" /\ Starts(ObjName[i]) # {}

(***************************************************************************)
(* Rejected bind calls of the container, checked under SpecWire.           *)
(***************************************************************************)
\* C30 as stated: a bind call that ends with an error leaves the exact map and
\* the predicate list exactly as they were before the call (so that a rejected
\* predicate binding is not there for later matching).
C30_AsStated ==
    [][(BindStep /\ IsError(answer')) => UNCHANGED registry]_vars

(***************************************************************************)
(* Claims about a container used call after call, checked under SpecSeq.   *)
(***************************************************************************)
\* The dependency instances that were injected into the i-th object made: what
\* its factory was passed, the type argument excepted.
InjectedInto(i) ==
    {a[2] : a \in {b \in objects[i].args : b[1] \notin TypeArgument(objects[i].fac)}}

\* C31 as stated: in sequential execution, an instance that provide created and
\* the store holds comes after every dependency instance that was injected
\* into it: each of them is in the store at an earlier insertion position; and
\* a close call invokes the close capability of a consumer before that of any
\* of its dependencies.
C31_AsStated ==
    /\ \A p \in 1..Len(items) : \A i \in 1..Len(objects) :
          (items[p].val = ObjName[i] /\ items[p].key = objects[i].key) =>
              \A d \in InjectedInto(i) : \E q \in 1..(p - 1) : items[q].val = d
    /\ \A r \in Closed : \A i \in 1..Len(objects) :
          ((\E k \in 1..Len(r.found) : r.found[k] = ObjName[i])
                /\ CloseOf(objects[i].cls) # "") =>
              \A d \in InjectedInto(i) : \A jd \in 1..Len(r.hooks) :
                  r.hooks[jd][2] = d =>
                      \E jc \in 1..(jd - 1) : r.hooks[jc][2] = ObjName[i]

(***************************************************************************)
(* Claims about concurrent provide calls, checked under SpecLife.          *)
(***************************************************************************)
\* What the factory of the i-th object made was passed for its parameter name.
PassedFor(i, name) == {a[2] : a \in {b \in objects[i].args : b[1] = name}}

KeysWritten == {events[e][3] : e \in {h \in 1..Len(events) : IsEvent(h, "set")}}

\* C33 as stated: every key that provide wrote the store under has for its type
\* component a single concrete type or none, never a union; a key that is not a
\* key of the exact map (the entry was created through a predicate or through
\* implicit self-construction) has no name, whatever name the request carried.
C33_AsStated ==
    \A k \in KeysWritten :
        /\ k[1] \in Classes \cup {None}
        /\ k[1] \notin Unions
        /\ ~HasKey(factories_map, k) => k[2] = None

(***************************************************************************)
(* Failed constructions, checked under SpecSeq.                            *)
(***************************************************************************)
\* The start capability of an instance of cls raises.
StartFails(cls) == cls = "BadStart"
\* The objects made whose start raised.
FailedStarts == {i \in 1..Len(objects) : StartFails(objects[i].cls) /\ Starts(ObjName[i]) # {}}
\* The close capability of obj was invoked.
Closes(obj) == {e \in 1..Len(events) : IsEvent(e, "close") /\ events[e][2] = obj}
\* The provide call r ended with the exception of a factory or of a start.
Raised(r) == r.op = "provide" /\ r.res = Error("Exception")

\* C34: when the factory, or the start capability of the instance it made,
\* raises, the key under construction is not written to the store (and the
\* store is left as it was found, but for the dependencies resolved before);
\* the instance whose start raised is never stored nor returned, and its close
\* capability is never invoked, neither then nor by a later close; a later
\* provide of the same request fails in the same way, the factory having made
\* a new instance.
C34_FailedConstruction ==
    /\ \A i \in FailedStarts :
          /\ Sets(ObjName[i]) = {}
          /\ Closes(ObjName[i]) = {}
          /\ \A p \in 1..Len(items) : items[p].val # ObjName[i]
          /\ \A r \in Provided : r.res[2] # ObjName[i]
    /\ \A r \in finished : Raised(r) =>
          /\ r.kept
          /\ \A k \in r.pending : \A p \in 1..Len(r.added) : r.added[p].key # k
    /\ \A r1, r2 \in finished :
          (Raised(r1) /\ r2.op = "provide" /\ r1.n < r2.n
                /\ r1.rt = r2.rt /\ r1.name = r2.name) =>
              /\ Raised(r2)
              /\ (r1.made \cap FailedStarts # {}) =>
                    \E i \in r2.made \cap FailedStarts : i \notin r1.made

\* C34 witness: with x1 registered under (A, "n"), provide(A) made an
\* instance whose start raised; a close call that followed closed x1 and
\* cleared the store, and invoked no close on that instance; a provide(A) after
\* it made a second instance, whose start raised too.
C34_Witness ==
    \E r1, r2 \in finished : \E c \in Closed :
        /\ Raised(r1) /\ Raised(r2) /\ r1.n < c.n /\ c.n < r2.n
        /\ r1.rt = "A" /\ r2.rt = "A" /\ r1.name = None /\ r2.name = None
        /\ c.closed = <<"x1">> /\ c.cleared
        /\ \E i \in r1.made \cap FailedStarts : \E j \in r2.made \cap FailedStarts : i # j

(***************************************************************************)
(* Binding after instances were cached, checked under SpecRebind.          *)
(***************************************************************************)
\* The store has an instance for the request (t, n).
Shadowed(m, t, n) == resolve(m, t, n) # Error("KeyError")

\* C35 as stated: a bind call made when the store has an instance for a
\* request (T, N) leaves what get(T, N), and so provide(T, N), returns as it
\* was, whatever key it binds; and a provide call that found an instance in
\* the store invoked no factory.
C35_AsStated ==
    [][/\ BindStep =>
            \A t \in TypeQueries, n \in NameQueries :
                Shadowed(items, t, n) => resolve(items', t, n) = resolve(items, t, n)
       /\ \A r \in finished' : (r.op = "provide" /\ r.hit) => r.made = {}]_vars

(***************************************************************************)
(* Factories that return None, checked under SpecSeq.                      *)
(***************************************************************************)
\* The calls of a factory that returned None.
NoneMade == {i \in 1..Len(objects) : objects[i].cls = "NoneType"}
\* The provide calls that returned None.
NoneProvided == {r \in Provided : r.res[2] = None}

\* C36: a None that a factory returned is never taken for a cached instance:
\* get never returns it (the lookup of its key alone reports not found), a
\* provide call that returns None did not find it in the store and invoked the
\* factory itself, in every call anew, and the key it is stored under occupies
\* one position of the store.
C36_NoneNotCached ==
    /\ \A t \in TypeQueries, n \in NameQueries : resolve(items, t, n) # Returned(None)
    /\ \A p \in 1..Len(items) :
          (items[p].val = None /\ items[p].key[2] = None) =>
              resolve(items, items[p].key[1], None) = Error("KeyError")
    /\ \A r \in NoneProvided : ~r.hit /\ r.made \cap NoneMade # {}
    /\ \A r1, r2 \in NoneProvided : r1 # r2 => r1.made \cap r2.made = {}
    /\ \A p, q \in 1..Len(items) : items[p].key = items[q].key => p = q

\* C36 witness: A is bound to a factory that returns None; three provide(A)
\* calls returned None, the factory was called three times, and the store
\* holds the one entry (A, None) -> None.
C36_Witness ==
    /\ Cardinality({r \in NoneProvided : r.rt = "A" /\ r.name = None}) = 3
    /\ Cardinality(NoneMade) = 3
    /\ items = <<[key |-> <<"A", None>>, val |-> None]>>

(***************************************************************************)
(* Pre-built instances, checked under SpecLife.                            *)
(***************************************************************************)
\* The positions of found, last to first, that hold an instance with a close
\* capability.
RECURSIVE ReverseClosable(_, _)
ReverseClosable(found, k) ==
    IF k = 0 THEN <<>>
    ELSE IF CloseOf(ClassOf(found[k])) # ""
    THEN <<found[k]>> \o ReverseClosable(found, k - 1)
    ELSE ReverseClosable(found, k - 1)

\* C37 as stated: a bind call with a concrete or absent selector and a
\* pre-built instance writes the instance to the store in that very call,
\* under (selector, name), a new key taking the last position, and invokes
\* no start capability; no start capability is ever invoked on a pre-built
\* instance; and a close call invokes the close capability of every pre-built
\* instance it finds in the store, all the instances being closed in the
\* reverse of their order in the store.
C37_AsStated ==
    /\ [](/\ \A x \in Prebuilt : Starts(x) = {}
          /\ \A r \in Closed : r.solo =>
                /\ \A k \in 1..Len(r.found) :
                      r.found[k] \in Prebuilt =>
                          \E j \in 1..Len(r.closed) : r.closed[j] = r.found[k]
                /\ r.closed = ReverseClosable(r.found, Len(r.found)))
    /\ [][\A b \in LifeBinds :
              (b[2] \in Prebuilt /\ b[1] \in KeyTypes /\ Bind(b[1], b[2], b[3], {})) =>
                  /\ HasKey(items', <<b[1], b[3]>>) /\ Get(items', <<b[1], b[3]>>) = b[2]
                  /\ ~HasKey(items, <<b[1], b[3]>>) =>
                        items' = Append(items, [key |-> <<b[1], b[3]>>, val |-> b[2]])
                  /\ events' = events]_vars
====
